---- MODULE Spec2Model ----
(***************************************************************************)
(* Accessibility remediation pipeline of the browser extension             *)
(* (content.js / popup.js): classification of images, form fields and      *)
(* links, the two-phase generate-then-analyze orchestration per category,  *)
(* the application of inference results to the document, and teardown.     *)
(*                                                                         *)
(* Strings are sequences of one-character strings, so that trim,           *)
(* toLowerCase, includes and split are computed as the code computes them. *)
(* A missing attribute (getAttribute returning null, an undefined          *)
(* property) is the value NULL.                                            *)
(***************************************************************************)
EXTENDS Integers, Sequences, FiniteSets, TLC

\* ------------------------------------------------------------------------
\* Strings
\* ------------------------------------------------------------------------
NULL == <<"<null>">>

EMPTY == <<>>

\* A string is the sequence of its UTF-16 code units.  A code unit up to
\* U+00FF is written as the character itself, a code unit above U+00FF (and
\* the grave accent, "U+0060") by its name; a code point above U+FFFF is the
\* pair of its surrogate code units.
\* WhiteSpace and LineTerminator of ECMAScript: what String.prototype.trim
\* removes and what \s matches
JsWhiteSpace ==
  { " ", "\t", "\n", "\r", "\f", "", " ",
    "U+1680", "U+2000", "U+2001", "U+2002", "U+2003", "U+2004", "U+2005",
    "U+2006", "U+2007", "U+2008", "U+2009", "U+200A", "U+2028", "U+2029",
    "U+202F", "U+205F", "U+3000", "U+FEFF" }

IsWs(c) == c \in JsWhiteSpace

\* The lower case mappings of the Unicode Character Database (17.0) that
\* String.prototype.toLowerCase applies.
\* the printable ASCII characters that have no lower case form of their own
AsciiUnchanged ==
  { " ", "!", "#", "$", "%", "&", "'", "(", ")", "*", "+", ",", "-", ".", "/", "0", "1", "2",
    "3", "4", "5", "6", "7", "8", "9", ":", ";", "<", "=", ">", "?", "@", "[", "]", "^", "_",
    "a", "b", "c", "d", "e", "f", "g", "h", "i", "j", "k", "l", "m", "n", "o", "p", "q", "r",
    "s", "t", "u", "v", "w", "x", "y", "z", "{", "|", "}", "~" }

\* the ASCII and Latin-1 capitals, and the lower case form of each, in the
\* same order
UpperChars ==
  << "A", "B", "C", "D", "E", "F", "G", "H", "I", "J", "K", "L", "M", "N", "O", "P", "Q", "R",
     "S", "T", "U", "V", "W", "X", "Y", "Z", "À", "Á", "Â", "Ã", "Ä", "Å", "Æ", "Ç", "È", "É",
     "Ê", "Ë", "Ì", "Í", "Î", "Ï", "Ð", "Ñ", "Ò", "Ó", "Ô", "Õ", "Ö", "Ø", "Ù", "Ú", "Û", "Ü",
     "Ý", "Þ" >>

LowerChars ==
  << "a", "b", "c", "d", "e", "f", "g", "h", "i", "j", "k", "l", "m", "n", "o", "p", "q", "r",
     "s", "t", "u", "v", "w", "x", "y", "z", "à", "á", "â", "ã", "ä", "å", "æ", "ç", "è", "é",
     "ê", "ë", "ì", "í", "î", "ï", "ð", "ñ", "ò", "ó", "ô", "õ", "ö", "ø", "ù", "ú", "û", "ü",
     "ý", "þ" >>

LowerChar(c) ==
  IF \E i \in 1..Len(UpperChars) : UpperChars[i] = c
  THEN LowerChars[CHOOSE i \in 1..Len(UpperChars) : UpperChars[i] = c]
  ELSE c

\* the code units above U+00FF that have a lower case form, and the lower
\* case form of each, in the same order
UpperUnits ==
  << "U+0100", "U+0102", "U+0104", "U+0106", "U+0108", "U+010A", "U+010C", "U+010E", "U+0110",
     "U+0112", "U+0114", "U+0116", "U+0118", "U+011A", "U+011C", "U+011E", "U+0120", "U+0122",
     "U+0124", "U+0126", "U+0128", "U+012A", "U+012C", "U+012E", "U+0132", "U+0134", "U+0136",
     "U+0139", "U+013B", "U+013D", "U+013F", "U+0141", "U+0143", "U+0145", "U+0147", "U+014A",
     "U+014C", "U+014E", "U+0150", "U+0152", "U+0154", "U+0156", "U+0158", "U+015A", "U+015C",
     "U+015E", "U+0160", "U+0162", "U+0164", "U+0166", "U+0168", "U+016A", "U+016C", "U+016E",
     "U+0170", "U+0172", "U+0174", "U+0176", "U+0178", "U+0179", "U+017B", "U+017D", "U+0181",
     "U+0182", "U+0184", "U+0186", "U+0187", "U+0189", "U+018A", "U+018B", "U+018E", "U+018F",
     "U+0190", "U+0191", "U+0193", "U+0194", "U+0196", "U+0197", "U+0198", "U+019C", "U+019D",
     "U+019F", "U+01A0", "U+01A2", "U+01A4", "U+01A6", "U+01A7", "U+01A9", "U+01AC", "U+01AE",
     "U+01AF", "U+01B1", "U+01B2", "U+01B3", "U+01B5", "U+01B7", "U+01B8", "U+01BC", "U+01C4",
     "U+01C5", "U+01C7", "U+01C8", "U+01CA", "U+01CB", "U+01CD", "U+01CF", "U+01D1", "U+01D3",
     "U+01D5", "U+01D7", "U+01D9", "U+01DB", "U+01DE", "U+01E0", "U+01E2", "U+01E4", "U+01E6",
     "U+01E8", "U+01EA", "U+01EC", "U+01EE", "U+01F1", "U+01F2", "U+01F4", "U+01F6", "U+01F7",
     "U+01F8", "U+01FA", "U+01FC", "U+01FE", "U+0200", "U+0202", "U+0204", "U+0206", "U+0208",
     "U+020A", "U+020C", "U+020E", "U+0210", "U+0212", "U+0214", "U+0216", "U+0218", "U+021A",
     "U+021C", "U+021E", "U+0220", "U+0222", "U+0224", "U+0226", "U+0228", "U+022A", "U+022C",
     "U+022E", "U+0230", "U+0232", "U+023A", "U+023B", "U+023D", "U+023E", "U+0241", "U+0243",
     "U+0244", "U+0245", "U+0246", "U+0248", "U+024A", "U+024C", "U+024E", "U+0370", "U+0372",
     "U+0376", "U+037F", "U+0386", "U+0388", "U+0389", "U+038A", "U+038C", "U+038E", "U+038F",
     "U+0391", "U+0392", "U+0393", "U+0394", "U+0395", "U+0396", "U+0397", "U+0398", "U+0399",
     "U+039A", "U+039B", "U+039C", "U+039D", "U+039E", "U+039F", "U+03A0", "U+03A1", "U+03A4",
     "U+03A5", "U+03A6", "U+03A7", "U+03A8", "U+03A9", "U+03AA", "U+03AB", "U+03CF", "U+03D8",
     "U+03DA", "U+03DC", "U+03DE", "U+03E0", "U+03E2", "U+03E4", "U+03E6", "U+03E8", "U+03EA",
     "U+03EC", "U+03EE", "U+03F4", "U+03F7", "U+03F9", "U+03FA", "U+03FD", "U+03FE", "U+03FF",
     "U+0400", "U+0401", "U+0402", "U+0403", "U+0404", "U+0405", "U+0406", "U+0407", "U+0408",
     "U+0409", "U+040A", "U+040B", "U+040C", "U+040D", "U+040E", "U+040F", "U+0410", "U+0411",
     "U+0412", "U+0413", "U+0414", "U+0415", "U+0416", "U+0417", "U+0418", "U+0419", "U+041A",
     "U+041B", "U+041C", "U+041D", "U+041E", "U+041F", "U+0420", "U+0421", "U+0422", "U+0423",
     "U+0424", "U+0425", "U+0426", "U+0427", "U+0428", "U+0429", "U+042A", "U+042B", "U+042C",
     "U+042D", "U+042E", "U+042F", "U+0460", "U+0462", "U+0464", "U+0466", "U+0468", "U+046A",
     "U+046C", "U+046E", "U+0470", "U+0472", "U+0474", "U+0476", "U+0478", "U+047A", "U+047C",
     "U+047E", "U+0480", "U+048A", "U+048C", "U+048E", "U+0490", "U+0492", "U+0494", "U+0496",
     "U+0498", "U+049A", "U+049C", "U+049E", "U+04A0", "U+04A2", "U+04A4", "U+04A6", "U+04A8",
     "U+04AA", "U+04AC", "U+04AE", "U+04B0", "U+04B2", "U+04B4", "U+04B6", "U+04B8", "U+04BA",
     "U+04BC", "U+04BE", "U+04C0", "U+04C1", "U+04C3", "U+04C5", "U+04C7", "U+04C9", "U+04CB",
     "U+04CD", "U+04D0", "U+04D2", "U+04D4", "U+04D6", "U+04D8", "U+04DA", "U+04DC", "U+04DE",
     "U+04E0", "U+04E2", "U+04E4", "U+04E6", "U+04E8", "U+04EA", "U+04EC", "U+04EE", "U+04F0",
     "U+04F2", "U+04F4", "U+04F6", "U+04F8", "U+04FA", "U+04FC", "U+04FE", "U+0500", "U+0502",
     "U+0504", "U+0506", "U+0508", "U+050A", "U+050C", "U+050E", "U+0510", "U+0512", "U+0514",
     "U+0516", "U+0518", "U+051A", "U+051C", "U+051E", "U+0520", "U+0522", "U+0524", "U+0526",
     "U+0528", "U+052A", "U+052C", "U+052E", "U+0531", "U+0532", "U+0533", "U+0534", "U+0535",
     "U+0536", "U+0537", "U+0538", "U+0539", "U+053A", "U+053B", "U+053C", "U+053D", "U+053E",
     "U+053F", "U+0540", "U+0541", "U+0542", "U+0543", "U+0544", "U+0545", "U+0546", "U+0547",
     "U+0548", "U+0549", "U+054A", "U+054B", "U+054C", "U+054D", "U+054E", "U+054F", "U+0550",
     "U+0551", "U+0552", "U+0553", "U+0554", "U+0555", "U+0556", "U+10A0", "U+10A1", "U+10A2",
     "U+10A3", "U+10A4", "U+10A5", "U+10A6", "U+10A7", "U+10A8", "U+10A9", "U+10AA", "U+10AB",
     "U+10AC", "U+10AD", "U+10AE", "U+10AF", "U+10B0", "U+10B1", "U+10B2", "U+10B3", "U+10B4",
     "U+10B5", "U+10B6", "U+10B7", "U+10B8", "U+10B9", "U+10BA", "U+10BB", "U+10BC", "U+10BD",
     "U+10BE", "U+10BF", "U+10C0", "U+10C1", "U+10C2", "U+10C3", "U+10C4", "U+10C5", "U+10C7",
     "U+10CD", "U+13A0", "U+13A1", "U+13A2", "U+13A3", "U+13A4", "U+13A5", "U+13A6", "U+13A7",
     "U+13A8", "U+13A9", "U+13AA", "U+13AB", "U+13AC", "U+13AD", "U+13AE", "U+13AF", "U+13B0",
     "U+13B1", "U+13B2", "U+13B3", "U+13B4", "U+13B5", "U+13B6", "U+13B7", "U+13B8", "U+13B9",
     "U+13BA", "U+13BB", "U+13BC", "U+13BD", "U+13BE", "U+13BF", "U+13C0", "U+13C1", "U+13C2",
     "U+13C3", "U+13C4", "U+13C5", "U+13C6", "U+13C7", "U+13C8", "U+13C9", "U+13CA", "U+13CB",
     "U+13CC", "U+13CD", "U+13CE", "U+13CF", "U+13D0", "U+13D1", "U+13D2", "U+13D3", "U+13D4",
     "U+13D5", "U+13D6", "U+13D7", "U+13D8", "U+13D9", "U+13DA", "U+13DB", "U+13DC", "U+13DD",
     "U+13DE", "U+13DF", "U+13E0", "U+13E1", "U+13E2", "U+13E3", "U+13E4", "U+13E5", "U+13E6",
     "U+13E7", "U+13E8", "U+13E9", "U+13EA", "U+13EB", "U+13EC", "U+13ED", "U+13EE", "U+13EF",
     "U+13F0", "U+13F1", "U+13F2", "U+13F3", "U+13F4", "U+13F5", "U+1C89", "U+1C90", "U+1C91",
     "U+1C92", "U+1C93", "U+1C94", "U+1C95", "U+1C96", "U+1C97", "U+1C98", "U+1C99", "U+1C9A",
     "U+1C9B", "U+1C9C", "U+1C9D", "U+1C9E", "U+1C9F", "U+1CA0", "U+1CA1", "U+1CA2", "U+1CA3",
     "U+1CA4", "U+1CA5", "U+1CA6", "U+1CA7", "U+1CA8", "U+1CA9", "U+1CAA", "U+1CAB", "U+1CAC",
     "U+1CAD", "U+1CAE", "U+1CAF", "U+1CB0", "U+1CB1", "U+1CB2", "U+1CB3", "U+1CB4", "U+1CB5",
     "U+1CB6", "U+1CB7", "U+1CB8", "U+1CB9", "U+1CBA", "U+1CBD", "U+1CBE", "U+1CBF", "U+1E00",
     "U+1E02", "U+1E04", "U+1E06", "U+1E08", "U+1E0A", "U+1E0C", "U+1E0E", "U+1E10", "U+1E12",
     "U+1E14", "U+1E16", "U+1E18", "U+1E1A", "U+1E1C", "U+1E1E", "U+1E20", "U+1E22", "U+1E24",
     "U+1E26", "U+1E28", "U+1E2A", "U+1E2C", "U+1E2E", "U+1E30", "U+1E32", "U+1E34", "U+1E36",
     "U+1E38", "U+1E3A", "U+1E3C", "U+1E3E", "U+1E40", "U+1E42", "U+1E44", "U+1E46", "U+1E48",
     "U+1E4A", "U+1E4C", "U+1E4E", "U+1E50", "U+1E52", "U+1E54", "U+1E56", "U+1E58", "U+1E5A",
     "U+1E5C", "U+1E5E", "U+1E60", "U+1E62", "U+1E64", "U+1E66", "U+1E68", "U+1E6A", "U+1E6C",
     "U+1E6E", "U+1E70", "U+1E72", "U+1E74", "U+1E76", "U+1E78", "U+1E7A", "U+1E7C", "U+1E7E",
     "U+1E80", "U+1E82", "U+1E84", "U+1E86", "U+1E88", "U+1E8A", "U+1E8C", "U+1E8E", "U+1E90",
     "U+1E92", "U+1E94", "U+1E9E", "U+1EA0", "U+1EA2", "U+1EA4", "U+1EA6", "U+1EA8", "U+1EAA",
     "U+1EAC", "U+1EAE", "U+1EB0", "U+1EB2", "U+1EB4", "U+1EB6", "U+1EB8", "U+1EBA", "U+1EBC",
     "U+1EBE", "U+1EC0", "U+1EC2", "U+1EC4", "U+1EC6", "U+1EC8", "U+1ECA", "U+1ECC", "U+1ECE",
     "U+1ED0", "U+1ED2", "U+1ED4", "U+1ED6", "U+1ED8", "U+1EDA", "U+1EDC", "U+1EDE", "U+1EE0",
     "U+1EE2", "U+1EE4", "U+1EE6", "U+1EE8", "U+1EEA", "U+1EEC", "U+1EEE", "U+1EF0", "U+1EF2",
     "U+1EF4", "U+1EF6", "U+1EF8", "U+1EFA", "U+1EFC", "U+1EFE", "U+1F08", "U+1F09", "U+1F0A",
     "U+1F0B", "U+1F0C", "U+1F0D", "U+1F0E", "U+1F0F", "U+1F18", "U+1F19", "U+1F1A", "U+1F1B",
     "U+1F1C", "U+1F1D", "U+1F28", "U+1F29", "U+1F2A", "U+1F2B", "U+1F2C", "U+1F2D", "U+1F2E",
     "U+1F2F", "U+1F38", "U+1F39", "U+1F3A", "U+1F3B", "U+1F3C", "U+1F3D", "U+1F3E", "U+1F3F",
     "U+1F48", "U+1F49", "U+1F4A", "U+1F4B", "U+1F4C", "U+1F4D", "U+1F59", "U+1F5B", "U+1F5D",
     "U+1F5F", "U+1F68", "U+1F69", "U+1F6A", "U+1F6B", "U+1F6C", "U+1F6D", "U+1F6E", "U+1F6F",
     "U+1F88", "U+1F89", "U+1F8A", "U+1F8B", "U+1F8C", "U+1F8D", "U+1F8E", "U+1F8F", "U+1F98",
     "U+1F99", "U+1F9A", "U+1F9B", "U+1F9C", "U+1F9D", "U+1F9E", "U+1F9F", "U+1FA8", "U+1FA9",
     "U+1FAA", "U+1FAB", "U+1FAC", "U+1FAD", "U+1FAE", "U+1FAF", "U+1FB8", "U+1FB9", "U+1FBA",
     "U+1FBB", "U+1FBC", "U+1FC8", "U+1FC9", "U+1FCA", "U+1FCB", "U+1FCC", "U+1FD8", "U+1FD9",
     "U+1FDA", "U+1FDB", "U+1FE8", "U+1FE9", "U+1FEA", "U+1FEB", "U+1FEC", "U+1FF8", "U+1FF9",
     "U+1FFA", "U+1FFB", "U+1FFC", "U+2126", "U+212A", "U+212B", "U+2132", "U+2160", "U+2161",
     "U+2162", "U+2163", "U+2164", "U+2165", "U+2166", "U+2167", "U+2168", "U+2169", "U+216A",
     "U+216B", "U+216C", "U+216D", "U+216E", "U+216F", "U+2183", "U+24B6", "U+24B7", "U+24B8",
     "U+24B9", "U+24BA", "U+24BB", "U+24BC", "U+24BD", "U+24BE", "U+24BF", "U+24C0", "U+24C1",
     "U+24C2", "U+24C3", "U+24C4", "U+24C5", "U+24C6", "U+24C7", "U+24C8", "U+24C9", "U+24CA",
     "U+24CB", "U+24CC", "U+24CD", "U+24CE", "U+24CF", "U+2C00", "U+2C01", "U+2C02", "U+2C03",
     "U+2C04", "U+2C05", "U+2C06", "U+2C07", "U+2C08", "U+2C09", "U+2C0A", "U+2C0B", "U+2C0C",
     "U+2C0D", "U+2C0E", "U+2C0F", "U+2C10", "U+2C11", "U+2C12", "U+2C13", "U+2C14", "U+2C15",
     "U+2C16", "U+2C17", "U+2C18", "U+2C19", "U+2C1A", "U+2C1B", "U+2C1C", "U+2C1D", "U+2C1E",
     "U+2C1F", "U+2C20", "U+2C21", "U+2C22", "U+2C23", "U+2C24", "U+2C25", "U+2C26", "U+2C27",
     "U+2C28", "U+2C29", "U+2C2A", "U+2C2B", "U+2C2C", "U+2C2D", "U+2C2E", "U+2C2F", "U+2C60",
     "U+2C62", "U+2C63", "U+2C64", "U+2C67", "U+2C69", "U+2C6B", "U+2C6D", "U+2C6E", "U+2C6F",
     "U+2C70", "U+2C72", "U+2C75", "U+2C7E", "U+2C7F", "U+2C80", "U+2C82", "U+2C84", "U+2C86",
     "U+2C88", "U+2C8A", "U+2C8C", "U+2C8E", "U+2C90", "U+2C92", "U+2C94", "U+2C96", "U+2C98",
     "U+2C9A", "U+2C9C", "U+2C9E", "U+2CA0", "U+2CA2", "U+2CA4", "U+2CA6", "U+2CA8", "U+2CAA",
     "U+2CAC", "U+2CAE", "U+2CB0", "U+2CB2", "U+2CB4", "U+2CB6", "U+2CB8", "U+2CBA", "U+2CBC",
     "U+2CBE", "U+2CC0", "U+2CC2", "U+2CC4", "U+2CC6", "U+2CC8", "U+2CCA", "U+2CCC", "U+2CCE",
     "U+2CD0", "U+2CD2", "U+2CD4", "U+2CD6", "U+2CD8", "U+2CDA", "U+2CDC", "U+2CDE", "U+2CE0",
     "U+2CE2", "U+2CEB", "U+2CED", "U+2CF2", "U+A640", "U+A642", "U+A644", "U+A646", "U+A648",
     "U+A64A", "U+A64C", "U+A64E", "U+A650", "U+A652", "U+A654", "U+A656", "U+A658", "U+A65A",
     "U+A65C", "U+A65E", "U+A660", "U+A662", "U+A664", "U+A666", "U+A668", "U+A66A", "U+A66C",
     "U+A680", "U+A682", "U+A684", "U+A686", "U+A688", "U+A68A", "U+A68C", "U+A68E", "U+A690",
     "U+A692", "U+A694", "U+A696", "U+A698", "U+A69A", "U+A722", "U+A724", "U+A726", "U+A728",
     "U+A72A", "U+A72C", "U+A72E", "U+A732", "U+A734", "U+A736", "U+A738", "U+A73A", "U+A73C",
     "U+A73E", "U+A740", "U+A742", "U+A744", "U+A746", "U+A748", "U+A74A", "U+A74C", "U+A74E",
     "U+A750", "U+A752", "U+A754", "U+A756", "U+A758", "U+A75A", "U+A75C", "U+A75E", "U+A760",
     "U+A762", "U+A764", "U+A766", "U+A768", "U+A76A", "U+A76C", "U+A76E", "U+A779", "U+A77B",
     "U+A77D", "U+A77E", "U+A780", "U+A782", "U+A784", "U+A786", "U+A78B", "U+A78D", "U+A790",
     "U+A792", "U+A796", "U+A798", "U+A79A", "U+A79C", "U+A79E", "U+A7A0", "U+A7A2", "U+A7A4",
     "U+A7A6", "U+A7A8", "U+A7AA", "U+A7AB", "U+A7AC", "U+A7AD", "U+A7AE", "U+A7B0", "U+A7B1",
     "U+A7B2", "U+A7B3", "U+A7B4", "U+A7B6", "U+A7B8", "U+A7BA", "U+A7BC", "U+A7BE", "U+A7C0",
     "U+A7C2", "U+A7C4", "U+A7C5", "U+A7C6", "U+A7C7", "U+A7C9", "U+A7CB", "U+A7CC", "U+A7CE",
     "U+A7D0", "U+A7D2", "U+A7D4", "U+A7D6", "U+A7D8", "U+A7DA", "U+A7DC", "U+A7F5", "U+FF21",
     "U+FF22", "U+FF23", "U+FF24", "U+FF25", "U+FF26", "U+FF27", "U+FF28", "U+FF29", "U+FF2A",
     "U+FF2B", "U+FF2C", "U+FF2D", "U+FF2E", "U+FF2F", "U+FF30", "U+FF31", "U+FF32", "U+FF33",
     "U+FF34", "U+FF35", "U+FF36", "U+FF37", "U+FF38", "U+FF39", "U+FF3A" >>

LowerUnits ==
  << "U+0101", "U+0103", "U+0105", "U+0107", "U+0109", "U+010B", "U+010D", "U+010F", "U+0111",
     "U+0113", "U+0115", "U+0117", "U+0119", "U+011B", "U+011D", "U+011F", "U+0121", "U+0123",
     "U+0125", "U+0127", "U+0129", "U+012B", "U+012D", "U+012F", "U+0133", "U+0135", "U+0137",
     "U+013A", "U+013C", "U+013E", "U+0140", "U+0142", "U+0144", "U+0146", "U+0148", "U+014B",
     "U+014D", "U+014F", "U+0151", "U+0153", "U+0155", "U+0157", "U+0159", "U+015B", "U+015D",
     "U+015F", "U+0161", "U+0163", "U+0165", "U+0167", "U+0169", "U+016B", "U+016D", "U+016F",
     "U+0171", "U+0173", "U+0175", "U+0177", "ÿ", "U+017A", "U+017C", "U+017E", "U+0253",
     "U+0183", "U+0185", "U+0254", "U+0188", "U+0256", "U+0257", "U+018C", "U+01DD", "U+0259",
     "U+025B", "U+0192", "U+0260", "U+0263", "U+0269", "U+0268", "U+0199", "U+026F", "U+0272",
     "U+0275", "U+01A1", "U+01A3", "U+01A5", "U+0280", "U+01A8", "U+0283", "U+01AD", "U+0288",
     "U+01B0", "U+028A", "U+028B", "U+01B4", "U+01B6", "U+0292", "U+01B9", "U+01BD", "U+01C6",
     "U+01C6", "U+01C9", "U+01C9", "U+01CC", "U+01CC", "U+01CE", "U+01D0", "U+01D2", "U+01D4",
     "U+01D6", "U+01D8", "U+01DA", "U+01DC", "U+01DF", "U+01E1", "U+01E3", "U+01E5", "U+01E7",
     "U+01E9", "U+01EB", "U+01ED", "U+01EF", "U+01F3", "U+01F3", "U+01F5", "U+0195", "U+01BF",
     "U+01F9", "U+01FB", "U+01FD", "U+01FF", "U+0201", "U+0203", "U+0205", "U+0207", "U+0209",
     "U+020B", "U+020D", "U+020F", "U+0211", "U+0213", "U+0215", "U+0217", "U+0219", "U+021B",
     "U+021D", "U+021F", "U+019E", "U+0223", "U+0225", "U+0227", "U+0229", "U+022B", "U+022D",
     "U+022F", "U+0231", "U+0233", "U+2C65", "U+023C", "U+019A", "U+2C66", "U+0242", "U+0180",
     "U+0289", "U+028C", "U+0247", "U+0249", "U+024B", "U+024D", "U+024F", "U+0371", "U+0373",
     "U+0377", "U+03F3", "U+03AC", "U+03AD", "U+03AE", "U+03AF", "U+03CC", "U+03CD", "U+03CE",
     "U+03B1", "U+03B2", "U+03B3", "U+03B4", "U+03B5", "U+03B6", "U+03B7", "U+03B8", "U+03B9",
     "U+03BA", "U+03BB", "U+03BC", "U+03BD", "U+03BE", "U+03BF", "U+03C0", "U+03C1", "U+03C4",
     "U+03C5", "U+03C6", "U+03C7", "U+03C8", "U+03C9", "U+03CA", "U+03CB", "U+03D7", "U+03D9",
     "U+03DB", "U+03DD", "U+03DF", "U+03E1", "U+03E3", "U+03E5", "U+03E7", "U+03E9", "U+03EB",
     "U+03ED", "U+03EF", "U+03B8", "U+03F8", "U+03F2", "U+03FB", "U+037B", "U+037C", "U+037D",
     "U+0450", "U+0451", "U+0452", "U+0453", "U+0454", "U+0455", "U+0456", "U+0457", "U+0458",
     "U+0459", "U+045A", "U+045B", "U+045C", "U+045D", "U+045E", "U+045F", "U+0430", "U+0431",
     "U+0432", "U+0433", "U+0434", "U+0435", "U+0436", "U+0437", "U+0438", "U+0439", "U+043A",
     "U+043B", "U+043C", "U+043D", "U+043E", "U+043F", "U+0440", "U+0441", "U+0442", "U+0443",
     "U+0444", "U+0445", "U+0446", "U+0447", "U+0448", "U+0449", "U+044A", "U+044B", "U+044C",
     "U+044D", "U+044E", "U+044F", "U+0461", "U+0463", "U+0465", "U+0467", "U+0469", "U+046B",
     "U+046D", "U+046F", "U+0471", "U+0473", "U+0475", "U+0477", "U+0479", "U+047B", "U+047D",
     "U+047F", "U+0481", "U+048B", "U+048D", "U+048F", "U+0491", "U+0493", "U+0495", "U+0497",
     "U+0499", "U+049B", "U+049D", "U+049F", "U+04A1", "U+04A3", "U+04A5", "U+04A7", "U+04A9",
     "U+04AB", "U+04AD", "U+04AF", "U+04B1", "U+04B3", "U+04B5", "U+04B7", "U+04B9", "U+04BB",
     "U+04BD", "U+04BF", "U+04CF", "U+04C2", "U+04C4", "U+04C6", "U+04C8", "U+04CA", "U+04CC",
     "U+04CE", "U+04D1", "U+04D3", "U+04D5", "U+04D7", "U+04D9", "U+04DB", "U+04DD", "U+04DF",
     "U+04E1", "U+04E3", "U+04E5", "U+04E7", "U+04E9", "U+04EB", "U+04ED", "U+04EF", "U+04F1",
     "U+04F3", "U+04F5", "U+04F7", "U+04F9", "U+04FB", "U+04FD", "U+04FF", "U+0501", "U+0503",
     "U+0505", "U+0507", "U+0509", "U+050B", "U+050D", "U+050F", "U+0511", "U+0513", "U+0515",
     "U+0517", "U+0519", "U+051B", "U+051D", "U+051F", "U+0521", "U+0523", "U+0525", "U+0527",
     "U+0529", "U+052B", "U+052D", "U+052F", "U+0561", "U+0562", "U+0563", "U+0564", "U+0565",
     "U+0566", "U+0567", "U+0568", "U+0569", "U+056A", "U+056B", "U+056C", "U+056D", "U+056E",
     "U+056F", "U+0570", "U+0571", "U+0572", "U+0573", "U+0574", "U+0575", "U+0576", "U+0577",
     "U+0578", "U+0579", "U+057A", "U+057B", "U+057C", "U+057D", "U+057E", "U+057F", "U+0580",
     "U+0581", "U+0582", "U+0583", "U+0584", "U+0585", "U+0586", "U+2D00", "U+2D01", "U+2D02",
     "U+2D03", "U+2D04", "U+2D05", "U+2D06", "U+2D07", "U+2D08", "U+2D09", "U+2D0A", "U+2D0B",
     "U+2D0C", "U+2D0D", "U+2D0E", "U+2D0F", "U+2D10", "U+2D11", "U+2D12", "U+2D13", "U+2D14",
     "U+2D15", "U+2D16", "U+2D17", "U+2D18", "U+2D19", "U+2D1A", "U+2D1B", "U+2D1C", "U+2D1D",
     "U+2D1E", "U+2D1F", "U+2D20", "U+2D21", "U+2D22", "U+2D23", "U+2D24", "U+2D25", "U+2D27",
     "U+2D2D", "U+AB70", "U+AB71", "U+AB72", "U+AB73", "U+AB74", "U+AB75", "U+AB76", "U+AB77",
     "U+AB78", "U+AB79", "U+AB7A", "U+AB7B", "U+AB7C", "U+AB7D", "U+AB7E", "U+AB7F", "U+AB80",
     "U+AB81", "U+AB82", "U+AB83", "U+AB84", "U+AB85", "U+AB86", "U+AB87", "U+AB88", "U+AB89",
     "U+AB8A", "U+AB8B", "U+AB8C", "U+AB8D", "U+AB8E", "U+AB8F", "U+AB90", "U+AB91", "U+AB92",
     "U+AB93", "U+AB94", "U+AB95", "U+AB96", "U+AB97", "U+AB98", "U+AB99", "U+AB9A", "U+AB9B",
     "U+AB9C", "U+AB9D", "U+AB9E", "U+AB9F", "U+ABA0", "U+ABA1", "U+ABA2", "U+ABA3", "U+ABA4",
     "U+ABA5", "U+ABA6", "U+ABA7", "U+ABA8", "U+ABA9", "U+ABAA", "U+ABAB", "U+ABAC", "U+ABAD",
     "U+ABAE", "U+ABAF", "U+ABB0", "U+ABB1", "U+ABB2", "U+ABB3", "U+ABB4", "U+ABB5", "U+ABB6",
     "U+ABB7", "U+ABB8", "U+ABB9", "U+ABBA", "U+ABBB", "U+ABBC", "U+ABBD", "U+ABBE", "U+ABBF",
     "U+13F8", "U+13F9", "U+13FA", "U+13FB", "U+13FC", "U+13FD", "U+1C8A", "U+10D0", "U+10D1",
     "U+10D2", "U+10D3", "U+10D4", "U+10D5", "U+10D6", "U+10D7", "U+10D8", "U+10D9", "U+10DA",
     "U+10DB", "U+10DC", "U+10DD", "U+10DE", "U+10DF", "U+10E0", "U+10E1", "U+10E2", "U+10E3",
     "U+10E4", "U+10E5", "U+10E6", "U+10E7", "U+10E8", "U+10E9", "U+10EA", "U+10EB", "U+10EC",
     "U+10ED", "U+10EE", "U+10EF", "U+10F0", "U+10F1", "U+10F2", "U+10F3", "U+10F4", "U+10F5",
     "U+10F6", "U+10F7", "U+10F8", "U+10F9", "U+10FA", "U+10FD", "U+10FE", "U+10FF", "U+1E01",
     "U+1E03", "U+1E05", "U+1E07", "U+1E09", "U+1E0B", "U+1E0D", "U+1E0F", "U+1E11", "U+1E13",
     "U+1E15", "U+1E17", "U+1E19", "U+1E1B", "U+1E1D", "U+1E1F", "U+1E21", "U+1E23", "U+1E25",
     "U+1E27", "U+1E29", "U+1E2B", "U+1E2D", "U+1E2F", "U+1E31", "U+1E33", "U+1E35", "U+1E37",
     "U+1E39", "U+1E3B", "U+1E3D", "U+1E3F", "U+1E41", "U+1E43", "U+1E45", "U+1E47", "U+1E49",
     "U+1E4B", "U+1E4D", "U+1E4F", "U+1E51", "U+1E53", "U+1E55", "U+1E57", "U+1E59", "U+1E5B",
     "U+1E5D", "U+1E5F", "U+1E61", "U+1E63", "U+1E65", "U+1E67", "U+1E69", "U+1E6B", "U+1E6D",
     "U+1E6F", "U+1E71", "U+1E73", "U+1E75", "U+1E77", "U+1E79", "U+1E7B", "U+1E7D", "U+1E7F",
     "U+1E81", "U+1E83", "U+1E85", "U+1E87", "U+1E89", "U+1E8B", "U+1E8D", "U+1E8F", "U+1E91",
     "U+1E93", "U+1E95", "ß", "U+1EA1", "U+1EA3", "U+1EA5", "U+1EA7", "U+1EA9", "U+1EAB",
     "U+1EAD", "U+1EAF", "U+1EB1", "U+1EB3", "U+1EB5", "U+1EB7", "U+1EB9", "U+1EBB", "U+1EBD",
     "U+1EBF", "U+1EC1", "U+1EC3", "U+1EC5", "U+1EC7", "U+1EC9", "U+1ECB", "U+1ECD", "U+1ECF",
     "U+1ED1", "U+1ED3", "U+1ED5", "U+1ED7", "U+1ED9", "U+1EDB", "U+1EDD", "U+1EDF", "U+1EE1",
     "U+1EE3", "U+1EE5", "U+1EE7", "U+1EE9", "U+1EEB", "U+1EED", "U+1EEF", "U+1EF1", "U+1EF3",
     "U+1EF5", "U+1EF7", "U+1EF9", "U+1EFB", "U+1EFD", "U+1EFF", "U+1F00", "U+1F01", "U+1F02",
     "U+1F03", "U+1F04", "U+1F05", "U+1F06", "U+1F07", "U+1F10", "U+1F11", "U+1F12", "U+1F13",
     "U+1F14", "U+1F15", "U+1F20", "U+1F21", "U+1F22", "U+1F23", "U+1F24", "U+1F25", "U+1F26",
     "U+1F27", "U+1F30", "U+1F31", "U+1F32", "U+1F33", "U+1F34", "U+1F35", "U+1F36", "U+1F37",
     "U+1F40", "U+1F41", "U+1F42", "U+1F43", "U+1F44", "U+1F45", "U+1F51", "U+1F53", "U+1F55",
     "U+1F57", "U+1F60", "U+1F61", "U+1F62", "U+1F63", "U+1F64", "U+1F65", "U+1F66", "U+1F67",
     "U+1F80", "U+1F81", "U+1F82", "U+1F83", "U+1F84", "U+1F85", "U+1F86", "U+1F87", "U+1F90",
     "U+1F91", "U+1F92", "U+1F93", "U+1F94", "U+1F95", "U+1F96", "U+1F97", "U+1FA0", "U+1FA1",
     "U+1FA2", "U+1FA3", "U+1FA4", "U+1FA5", "U+1FA6", "U+1FA7", "U+1FB0", "U+1FB1", "U+1F70",
     "U+1F71", "U+1FB3", "U+1F72", "U+1F73", "U+1F74", "U+1F75", "U+1FC3", "U+1FD0", "U+1FD1",
     "U+1F76", "U+1F77", "U+1FE0", "U+1FE1", "U+1F7A", "U+1F7B", "U+1FE5", "U+1F78", "U+1F79",
     "U+1F7C", "U+1F7D", "U+1FF3", "U+03C9", "k", "å", "U+214E", "U+2170", "U+2171", "U+2172",
     "U+2173", "U+2174", "U+2175", "U+2176", "U+2177", "U+2178", "U+2179", "U+217A", "U+217B",
     "U+217C", "U+217D", "U+217E", "U+217F", "U+2184", "U+24D0", "U+24D1", "U+24D2", "U+24D3",
     "U+24D4", "U+24D5", "U+24D6", "U+24D7", "U+24D8", "U+24D9", "U+24DA", "U+24DB", "U+24DC",
     "U+24DD", "U+24DE", "U+24DF", "U+24E0", "U+24E1", "U+24E2", "U+24E3", "U+24E4", "U+24E5",
     "U+24E6", "U+24E7", "U+24E8", "U+24E9", "U+2C30", "U+2C31", "U+2C32", "U+2C33", "U+2C34",
     "U+2C35", "U+2C36", "U+2C37", "U+2C38", "U+2C39", "U+2C3A", "U+2C3B", "U+2C3C", "U+2C3D",
     "U+2C3E", "U+2C3F", "U+2C40", "U+2C41", "U+2C42", "U+2C43", "U+2C44", "U+2C45", "U+2C46",
     "U+2C47", "U+2C48", "U+2C49", "U+2C4A", "U+2C4B", "U+2C4C", "U+2C4D", "U+2C4E", "U+2C4F",
     "U+2C50", "U+2C51", "U+2C52", "U+2C53", "U+2C54", "U+2C55", "U+2C56", "U+2C57", "U+2C58",
     "U+2C59", "U+2C5A", "U+2C5B", "U+2C5C", "U+2C5D", "U+2C5E", "U+2C5F", "U+2C61", "U+026B",
     "U+1D7D", "U+027D", "U+2C68", "U+2C6A", "U+2C6C", "U+0251", "U+0271", "U+0250", "U+0252",
     "U+2C73", "U+2C76", "U+023F", "U+0240", "U+2C81", "U+2C83", "U+2C85", "U+2C87", "U+2C89",
     "U+2C8B", "U+2C8D", "U+2C8F", "U+2C91", "U+2C93", "U+2C95", "U+2C97", "U+2C99", "U+2C9B",
     "U+2C9D", "U+2C9F", "U+2CA1", "U+2CA3", "U+2CA5", "U+2CA7", "U+2CA9", "U+2CAB", "U+2CAD",
     "U+2CAF", "U+2CB1", "U+2CB3", "U+2CB5", "U+2CB7", "U+2CB9", "U+2CBB", "U+2CBD", "U+2CBF",
     "U+2CC1", "U+2CC3", "U+2CC5", "U+2CC7", "U+2CC9", "U+2CCB", "U+2CCD", "U+2CCF", "U+2CD1",
     "U+2CD3", "U+2CD5", "U+2CD7", "U+2CD9", "U+2CDB", "U+2CDD", "U+2CDF", "U+2CE1", "U+2CE3",
     "U+2CEC", "U+2CEE", "U+2CF3", "U+A641", "U+A643", "U+A645", "U+A647", "U+A649", "U+A64B",
     "U+A64D", "U+A64F", "U+A651", "U+A653", "U+A655", "U+A657", "U+A659", "U+A65B", "U+A65D",
     "U+A65F", "U+A661", "U+A663", "U+A665", "U+A667", "U+A669", "U+A66B", "U+A66D", "U+A681",
     "U+A683", "U+A685", "U+A687", "U+A689", "U+A68B", "U+A68D", "U+A68F", "U+A691", "U+A693",
     "U+A695", "U+A697", "U+A699", "U+A69B", "U+A723", "U+A725", "U+A727", "U+A729", "U+A72B",
     "U+A72D", "U+A72F", "U+A733", "U+A735", "U+A737", "U+A739", "U+A73B", "U+A73D", "U+A73F",
     "U+A741", "U+A743", "U+A745", "U+A747", "U+A749", "U+A74B", "U+A74D", "U+A74F", "U+A751",
     "U+A753", "U+A755", "U+A757", "U+A759", "U+A75B", "U+A75D", "U+A75F", "U+A761", "U+A763",
     "U+A765", "U+A767", "U+A769", "U+A76B", "U+A76D", "U+A76F", "U+A77A", "U+A77C", "U+1D79",
     "U+A77F", "U+A781", "U+A783", "U+A785", "U+A787", "U+A78C", "U+0265", "U+A791", "U+A793",
     "U+A797", "U+A799", "U+A79B", "U+A79D", "U+A79F", "U+A7A1", "U+A7A3", "U+A7A5", "U+A7A7",
     "U+A7A9", "U+0266", "U+025C", "U+0261", "U+026C", "U+026A", "U+029E", "U+0287", "U+029D",
     "U+AB53", "U+A7B5", "U+A7B7", "U+A7B9", "U+A7BB", "U+A7BD", "U+A7BF", "U+A7C1", "U+A7C3",
     "U+A794", "U+0282", "U+1D8E", "U+A7C8", "U+A7CA", "U+0264", "U+A7CD", "U+A7CF", "U+A7D1",
     "U+A7D3", "U+A7D5", "U+A7D7", "U+A7D9", "U+A7DB", "U+019B", "U+A7F6", "U+FF41", "U+FF42",
     "U+FF43", "U+FF44", "U+FF45", "U+FF46", "U+FF47", "U+FF48", "U+FF49", "U+FF4A", "U+FF4B",
     "U+FF4C", "U+FF4D", "U+FF4E", "U+FF4F", "U+FF50", "U+FF51", "U+FF52", "U+FF53", "U+FF54",
     "U+FF55", "U+FF56", "U+FF57", "U+FF58", "U+FF59", "U+FF5A" >>

\* the same for the letters above U+FFFF, as surrogate pairs
UpperPairs ==
  << <<"U+D801", "U+DC00">>, <<"U+D801", "U+DC01">>, <<"U+D801", "U+DC02">>,
     <<"U+D801", "U+DC03">>, <<"U+D801", "U+DC04">>, <<"U+D801", "U+DC05">>,
     <<"U+D801", "U+DC06">>, <<"U+D801", "U+DC07">>, <<"U+D801", "U+DC08">>,
     <<"U+D801", "U+DC09">>, <<"U+D801", "U+DC0A">>, <<"U+D801", "U+DC0B">>,
     <<"U+D801", "U+DC0C">>, <<"U+D801", "U+DC0D">>, <<"U+D801", "U+DC0E">>,
     <<"U+D801", "U+DC0F">>, <<"U+D801", "U+DC10">>, <<"U+D801", "U+DC11">>,
     <<"U+D801", "U+DC12">>, <<"U+D801", "U+DC13">>, <<"U+D801", "U+DC14">>,
     <<"U+D801", "U+DC15">>, <<"U+D801", "U+DC16">>, <<"U+D801", "U+DC17">>,
     <<"U+D801", "U+DC18">>, <<"U+D801", "U+DC19">>, <<"U+D801", "U+DC1A">>,
     <<"U+D801", "U+DC1B">>, <<"U+D801", "U+DC1C">>, <<"U+D801", "U+DC1D">>,
     <<"U+D801", "U+DC1E">>, <<"U+D801", "U+DC1F">>, <<"U+D801", "U+DC20">>,
     <<"U+D801", "U+DC21">>, <<"U+D801", "U+DC22">>, <<"U+D801", "U+DC23">>,
     <<"U+D801", "U+DC24">>, <<"U+D801", "U+DC25">>, <<"U+D801", "U+DC26">>,
     <<"U+D801", "U+DC27">>, <<"U+D801", "U+DCB0">>, <<"U+D801", "U+DCB1">>,
     <<"U+D801", "U+DCB2">>, <<"U+D801", "U+DCB3">>, <<"U+D801", "U+DCB4">>,
     <<"U+D801", "U+DCB5">>, <<"U+D801", "U+DCB6">>, <<"U+D801", "U+DCB7">>,
     <<"U+D801", "U+DCB8">>, <<"U+D801", "U+DCB9">>, <<"U+D801", "U+DCBA">>,
     <<"U+D801", "U+DCBB">>, <<"U+D801", "U+DCBC">>, <<"U+D801", "U+DCBD">>,
     <<"U+D801", "U+DCBE">>, <<"U+D801", "U+DCBF">>, <<"U+D801", "U+DCC0">>,
     <<"U+D801", "U+DCC1">>, <<"U+D801", "U+DCC2">>, <<"U+D801", "U+DCC3">>,
     <<"U+D801", "U+DCC4">>, <<"U+D801", "U+DCC5">>, <<"U+D801", "U+DCC6">>,
     <<"U+D801", "U+DCC7">>, <<"U+D801", "U+DCC8">>, <<"U+D801", "U+DCC9">>,
     <<"U+D801", "U+DCCA">>, <<"U+D801", "U+DCCB">>, <<"U+D801", "U+DCCC">>,
     <<"U+D801", "U+DCCD">>, <<"U+D801", "U+DCCE">>, <<"U+D801", "U+DCCF">>,
     <<"U+D801", "U+DCD0">>, <<"U+D801", "U+DCD1">>, <<"U+D801", "U+DCD2">>,
     <<"U+D801", "U+DCD3">>, <<"U+D801", "U+DD70">>, <<"U+D801", "U+DD71">>,
     <<"U+D801", "U+DD72">>, <<"U+D801", "U+DD73">>, <<"U+D801", "U+DD74">>,
     <<"U+D801", "U+DD75">>, <<"U+D801", "U+DD76">>, <<"U+D801", "U+DD77">>,
     <<"U+D801", "U+DD78">>, <<"U+D801", "U+DD79">>, <<"U+D801", "U+DD7A">>,
     <<"U+D801", "U+DD7C">>, <<"U+D801", "U+DD7D">>, <<"U+D801", "U+DD7E">>,
     <<"U+D801", "U+DD7F">>, <<"U+D801", "U+DD80">>, <<"U+D801", "U+DD81">>,
     <<"U+D801", "U+DD82">>, <<"U+D801", "U+DD83">>, <<"U+D801", "U+DD84">>,
     <<"U+D801", "U+DD85">>, <<"U+D801", "U+DD86">>, <<"U+D801", "U+DD87">>,
     <<"U+D801", "U+DD88">>, <<"U+D801", "U+DD89">>, <<"U+D801", "U+DD8A">>,
     <<"U+D801", "U+DD8C">>, <<"U+D801", "U+DD8D">>, <<"U+D801", "U+DD8E">>,
     <<"U+D801", "U+DD8F">>, <<"U+D801", "U+DD90">>, <<"U+D801", "U+DD91">>,
     <<"U+D801", "U+DD92">>, <<"U+D801", "U+DD94">>, <<"U+D801", "U+DD95">>,
     <<"U+D803", "U+DC80">>, <<"U+D803", "U+DC81">>, <<"U+D803", "U+DC82">>,
     <<"U+D803", "U+DC83">>, <<"U+D803", "U+DC84">>, <<"U+D803", "U+DC85">>,
     <<"U+D803", "U+DC86">>, <<"U+D803", "U+DC87">>, <<"U+D803", "U+DC88">>,
     <<"U+D803", "U+DC89">>, <<"U+D803", "U+DC8A">>, <<"U+D803", "U+DC8B">>,
     <<"U+D803", "U+DC8C">>, <<"U+D803", "U+DC8D">>, <<"U+D803", "U+DC8E">>,
     <<"U+D803", "U+DC8F">>, <<"U+D803", "U+DC90">>, <<"U+D803", "U+DC91">>,
     <<"U+D803", "U+DC92">>, <<"U+D803", "U+DC93">>, <<"U+D803", "U+DC94">>,
     <<"U+D803", "U+DC95">>, <<"U+D803", "U+DC96">>, <<"U+D803", "U+DC97">>,
     <<"U+D803", "U+DC98">>, <<"U+D803", "U+DC99">>, <<"U+D803", "U+DC9A">>,
     <<"U+D803", "U+DC9B">>, <<"U+D803", "U+DC9C">>, <<"U+D803", "U+DC9D">>,
     <<"U+D803", "U+DC9E">>, <<"U+D803", "U+DC9F">>, <<"U+D803", "U+DCA0">>,
     <<"U+D803", "U+DCA1">>, <<"U+D803", "U+DCA2">>, <<"U+D803", "U+DCA3">>,
     <<"U+D803", "U+DCA4">>, <<"U+D803", "U+DCA5">>, <<"U+D803", "U+DCA6">>,
     <<"U+D803", "U+DCA7">>, <<"U+D803", "U+DCA8">>, <<"U+D803", "U+DCA9">>,
     <<"U+D803", "U+DCAA">>, <<"U+D803", "U+DCAB">>, <<"U+D803", "U+DCAC">>,
     <<"U+D803", "U+DCAD">>, <<"U+D803", "U+DCAE">>, <<"U+D803", "U+DCAF">>,
     <<"U+D803", "U+DCB0">>, <<"U+D803", "U+DCB1">>, <<"U+D803", "U+DCB2">>,
     <<"U+D803", "U+DD50">>, <<"U+D803", "U+DD51">>, <<"U+D803", "U+DD52">>,
     <<"U+D803", "U+DD53">>, <<"U+D803", "U+DD54">>, <<"U+D803", "U+DD55">>,
     <<"U+D803", "U+DD56">>, <<"U+D803", "U+DD57">>, <<"U+D803", "U+DD58">>,
     <<"U+D803", "U+DD59">>, <<"U+D803", "U+DD5A">>, <<"U+D803", "U+DD5B">>,
     <<"U+D803", "U+DD5C">>, <<"U+D803", "U+DD5D">>, <<"U+D803", "U+DD5E">>,
     <<"U+D803", "U+DD5F">>, <<"U+D803", "U+DD60">>, <<"U+D803", "U+DD61">>,
     <<"U+D803", "U+DD62">>, <<"U+D803", "U+DD63">>, <<"U+D803", "U+DD64">>,
     <<"U+D803", "U+DD65">>, <<"U+D806", "U+DCA0">>, <<"U+D806", "U+DCA1">>,
     <<"U+D806", "U+DCA2">>, <<"U+D806", "U+DCA3">>, <<"U+D806", "U+DCA4">>,
     <<"U+D806", "U+DCA5">>, <<"U+D806", "U+DCA6">>, <<"U+D806", "U+DCA7">>,
     <<"U+D806", "U+DCA8">>, <<"U+D806", "U+DCA9">>, <<"U+D806", "U+DCAA">>,
     <<"U+D806", "U+DCAB">>, <<"U+D806", "U+DCAC">>, <<"U+D806", "U+DCAD">>,
     <<"U+D806", "U+DCAE">>, <<"U+D806", "U+DCAF">>, <<"U+D806", "U+DCB0">>,
     <<"U+D806", "U+DCB1">>, <<"U+D806", "U+DCB2">>, <<"U+D806", "U+DCB3">>,
     <<"U+D806", "U+DCB4">>, <<"U+D806", "U+DCB5">>, <<"U+D806", "U+DCB6">>,
     <<"U+D806", "U+DCB7">>, <<"U+D806", "U+DCB8">>, <<"U+D806", "U+DCB9">>,
     <<"U+D806", "U+DCBA">>, <<"U+D806", "U+DCBB">>, <<"U+D806", "U+DCBC">>,
     <<"U+D806", "U+DCBD">>, <<"U+D806", "U+DCBE">>, <<"U+D806", "U+DCBF">>,
     <<"U+D81B", "U+DE40">>, <<"U+D81B", "U+DE41">>, <<"U+D81B", "U+DE42">>,
     <<"U+D81B", "U+DE43">>, <<"U+D81B", "U+DE44">>, <<"U+D81B", "U+DE45">>,
     <<"U+D81B", "U+DE46">>, <<"U+D81B", "U+DE47">>, <<"U+D81B", "U+DE48">>,
     <<"U+D81B", "U+DE49">>, <<"U+D81B", "U+DE4A">>, <<"U+D81B", "U+DE4B">>,
     <<"U+D81B", "U+DE4C">>, <<"U+D81B", "U+DE4D">>, <<"U+D81B", "U+DE4E">>,
     <<"U+D81B", "U+DE4F">>, <<"U+D81B", "U+DE50">>, <<"U+D81B", "U+DE51">>,
     <<"U+D81B", "U+DE52">>, <<"U+D81B", "U+DE53">>, <<"U+D81B", "U+DE54">>,
     <<"U+D81B", "U+DE55">>, <<"U+D81B", "U+DE56">>, <<"U+D81B", "U+DE57">>,
     <<"U+D81B", "U+DE58">>, <<"U+D81B", "U+DE59">>, <<"U+D81B", "U+DE5A">>,
     <<"U+D81B", "U+DE5B">>, <<"U+D81B", "U+DE5C">>, <<"U+D81B", "U+DE5D">>,
     <<"U+D81B", "U+DE5E">>, <<"U+D81B", "U+DE5F">>, <<"U+D81B", "U+DEA0">>,
     <<"U+D81B", "U+DEA1">>, <<"U+D81B", "U+DEA2">>, <<"U+D81B", "U+DEA3">>,
     <<"U+D81B", "U+DEA4">>, <<"U+D81B", "U+DEA5">>, <<"U+D81B", "U+DEA6">>,
     <<"U+D81B", "U+DEA7">>, <<"U+D81B", "U+DEA8">>, <<"U+D81B", "U+DEA9">>,
     <<"U+D81B", "U+DEAA">>, <<"U+D81B", "U+DEAB">>, <<"U+D81B", "U+DEAC">>,
     <<"U+D81B", "U+DEAD">>, <<"U+D81B", "U+DEAE">>, <<"U+D81B", "U+DEAF">>,
     <<"U+D81B", "U+DEB0">>, <<"U+D81B", "U+DEB1">>, <<"U+D81B", "U+DEB2">>,
     <<"U+D81B", "U+DEB3">>, <<"U+D81B", "U+DEB4">>, <<"U+D81B", "U+DEB5">>,
     <<"U+D81B", "U+DEB6">>, <<"U+D81B", "U+DEB7">>, <<"U+D81B", "U+DEB8">>,
     <<"U+D83A", "U+DD00">>, <<"U+D83A", "U+DD01">>, <<"U+D83A", "U+DD02">>,
     <<"U+D83A", "U+DD03">>, <<"U+D83A", "U+DD04">>, <<"U+D83A", "U+DD05">>,
     <<"U+D83A", "U+DD06">>, <<"U+D83A", "U+DD07">>, <<"U+D83A", "U+DD08">>,
     <<"U+D83A", "U+DD09">>, <<"U+D83A", "U+DD0A">>, <<"U+D83A", "U+DD0B">>,
     <<"U+D83A", "U+DD0C">>, <<"U+D83A", "U+DD0D">>, <<"U+D83A", "U+DD0E">>,
     <<"U+D83A", "U+DD0F">>, <<"U+D83A", "U+DD10">>, <<"U+D83A", "U+DD11">>,
     <<"U+D83A", "U+DD12">>, <<"U+D83A", "U+DD13">>, <<"U+D83A", "U+DD14">>,
     <<"U+D83A", "U+DD15">>, <<"U+D83A", "U+DD16">>, <<"U+D83A", "U+DD17">>,
     <<"U+D83A", "U+DD18">>, <<"U+D83A", "U+DD19">>, <<"U+D83A", "U+DD1A">>,
     <<"U+D83A", "U+DD1B">>, <<"U+D83A", "U+DD1C">>, <<"U+D83A", "U+DD1D">>,
     <<"U+D83A", "U+DD1E">>, <<"U+D83A", "U+DD1F">>, <<"U+D83A", "U+DD20">>,
     <<"U+D83A", "U+DD21">> >>

LowerPairs ==
  << <<"U+D801", "U+DC28">>, <<"U+D801", "U+DC29">>, <<"U+D801", "U+DC2A">>,
     <<"U+D801", "U+DC2B">>, <<"U+D801", "U+DC2C">>, <<"U+D801", "U+DC2D">>,
     <<"U+D801", "U+DC2E">>, <<"U+D801", "U+DC2F">>, <<"U+D801", "U+DC30">>,
     <<"U+D801", "U+DC31">>, <<"U+D801", "U+DC32">>, <<"U+D801", "U+DC33">>,
     <<"U+D801", "U+DC34">>, <<"U+D801", "U+DC35">>, <<"U+D801", "U+DC36">>,
     <<"U+D801", "U+DC37">>, <<"U+D801", "U+DC38">>, <<"U+D801", "U+DC39">>,
     <<"U+D801", "U+DC3A">>, <<"U+D801", "U+DC3B">>, <<"U+D801", "U+DC3C">>,
     <<"U+D801", "U+DC3D">>, <<"U+D801", "U+DC3E">>, <<"U+D801", "U+DC3F">>,
     <<"U+D801", "U+DC40">>, <<"U+D801", "U+DC41">>, <<"U+D801", "U+DC42">>,
     <<"U+D801", "U+DC43">>, <<"U+D801", "U+DC44">>, <<"U+D801", "U+DC45">>,
     <<"U+D801", "U+DC46">>, <<"U+D801", "U+DC47">>, <<"U+D801", "U+DC48">>,
     <<"U+D801", "U+DC49">>, <<"U+D801", "U+DC4A">>, <<"U+D801", "U+DC4B">>,
     <<"U+D801", "U+DC4C">>, <<"U+D801", "U+DC4D">>, <<"U+D801", "U+DC4E">>,
     <<"U+D801", "U+DC4F">>, <<"U+D801", "U+DCD8">>, <<"U+D801", "U+DCD9">>,
     <<"U+D801", "U+DCDA">>, <<"U+D801", "U+DCDB">>, <<"U+D801", "U+DCDC">>,
     <<"U+D801", "U+DCDD">>, <<"U+D801", "U+DCDE">>, <<"U+D801", "U+DCDF">>,
     <<"U+D801", "U+DCE0">>, <<"U+D801", "U+DCE1">>, <<"U+D801", "U+DCE2">>,
     <<"U+D801", "U+DCE3">>, <<"U+D801", "U+DCE4">>, <<"U+D801", "U+DCE5">>,
     <<"U+D801", "U+DCE6">>, <<"U+D801", "U+DCE7">>, <<"U+D801", "U+DCE8">>,
     <<"U+D801", "U+DCE9">>, <<"U+D801", "U+DCEA">>, <<"U+D801", "U+DCEB">>,
     <<"U+D801", "U+DCEC">>, <<"U+D801", "U+DCED">>, <<"U+D801", "U+DCEE">>,
     <<"U+D801", "U+DCEF">>, <<"U+D801", "U+DCF0">>, <<"U+D801", "U+DCF1">>,
     <<"U+D801", "U+DCF2">>, <<"U+D801", "U+DCF3">>, <<"U+D801", "U+DCF4">>,
     <<"U+D801", "U+DCF5">>, <<"U+D801", "U+DCF6">>, <<"U+D801", "U+DCF7">>,
     <<"U+D801", "U+DCF8">>, <<"U+D801", "U+DCF9">>, <<"U+D801", "U+DCFA">>,
     <<"U+D801", "U+DCFB">>, <<"U+D801", "U+DD97">>, <<"U+D801", "U+DD98">>,
     <<"U+D801", "U+DD99">>, <<"U+D801", "U+DD9A">>, <<"U+D801", "U+DD9B">>,
     <<"U+D801", "U+DD9C">>, <<"U+D801", "U+DD9D">>, <<"U+D801", "U+DD9E">>,
     <<"U+D801", "U+DD9F">>, <<"U+D801", "U+DDA0">>, <<"U+D801", "U+DDA1">>,
     <<"U+D801", "U+DDA3">>, <<"U+D801", "U+DDA4">>, <<"U+D801", "U+DDA5">>,
     <<"U+D801", "U+DDA6">>, <<"U+D801", "U+DDA7">>, <<"U+D801", "U+DDA8">>,
     <<"U+D801", "U+DDA9">>, <<"U+D801", "U+DDAA">>, <<"U+D801", "U+DDAB">>,
     <<"U+D801", "U+DDAC">>, <<"U+D801", "U+DDAD">>, <<"U+D801", "U+DDAE">>,
     <<"U+D801", "U+DDAF">>, <<"U+D801", "U+DDB0">>, <<"U+D801", "U+DDB1">>,
     <<"U+D801", "U+DDB3">>, <<"U+D801", "U+DDB4">>, <<"U+D801", "U+DDB5">>,
     <<"U+D801", "U+DDB6">>, <<"U+D801", "U+DDB7">>, <<"U+D801", "U+DDB8">>,
     <<"U+D801", "U+DDB9">>, <<"U+D801", "U+DDBB">>, <<"U+D801", "U+DDBC">>,
     <<"U+D803", "U+DCC0">>, <<"U+D803", "U+DCC1">>, <<"U+D803", "U+DCC2">>,
     <<"U+D803", "U+DCC3">>, <<"U+D803", "U+DCC4">>, <<"U+D803", "U+DCC5">>,
     <<"U+D803", "U+DCC6">>, <<"U+D803", "U+DCC7">>, <<"U+D803", "U+DCC8">>,
     <<"U+D803", "U+DCC9">>, <<"U+D803", "U+DCCA">>, <<"U+D803", "U+DCCB">>,
     <<"U+D803", "U+DCCC">>, <<"U+D803", "U+DCCD">>, <<"U+D803", "U+DCCE">>,
     <<"U+D803", "U+DCCF">>, <<"U+D803", "U+DCD0">>, <<"U+D803", "U+DCD1">>,
     <<"U+D803", "U+DCD2">>, <<"U+D803", "U+DCD3">>, <<"U+D803", "U+DCD4">>,
     <<"U+D803", "U+DCD5">>, <<"U+D803", "U+DCD6">>, <<"U+D803", "U+DCD7">>,
     <<"U+D803", "U+DCD8">>, <<"U+D803", "U+DCD9">>, <<"U+D803", "U+DCDA">>,
     <<"U+D803", "U+DCDB">>, <<"U+D803", "U+DCDC">>, <<"U+D803", "U+DCDD">>,
     <<"U+D803", "U+DCDE">>, <<"U+D803", "U+DCDF">>, <<"U+D803", "U+DCE0">>,
     <<"U+D803", "U+DCE1">>, <<"U+D803", "U+DCE2">>, <<"U+D803", "U+DCE3">>,
     <<"U+D803", "U+DCE4">>, <<"U+D803", "U+DCE5">>, <<"U+D803", "U+DCE6">>,
     <<"U+D803", "U+DCE7">>, <<"U+D803", "U+DCE8">>, <<"U+D803", "U+DCE9">>,
     <<"U+D803", "U+DCEA">>, <<"U+D803", "U+DCEB">>, <<"U+D803", "U+DCEC">>,
     <<"U+D803", "U+DCED">>, <<"U+D803", "U+DCEE">>, <<"U+D803", "U+DCEF">>,
     <<"U+D803", "U+DCF0">>, <<"U+D803", "U+DCF1">>, <<"U+D803", "U+DCF2">>,
     <<"U+D803", "U+DD70">>, <<"U+D803", "U+DD71">>, <<"U+D803", "U+DD72">>,
     <<"U+D803", "U+DD73">>, <<"U+D803", "U+DD74">>, <<"U+D803", "U+DD75">>,
     <<"U+D803", "U+DD76">>, <<"U+D803", "U+DD77">>, <<"U+D803", "U+DD78">>,
     <<"U+D803", "U+DD79">>, <<"U+D803", "U+DD7A">>, <<"U+D803", "U+DD7B">>,
     <<"U+D803", "U+DD7C">>, <<"U+D803", "U+DD7D">>, <<"U+D803", "U+DD7E">>,
     <<"U+D803", "U+DD7F">>, <<"U+D803", "U+DD80">>, <<"U+D803", "U+DD81">>,
     <<"U+D803", "U+DD82">>, <<"U+D803", "U+DD83">>, <<"U+D803", "U+DD84">>,
     <<"U+D803", "U+DD85">>, <<"U+D806", "U+DCC0">>, <<"U+D806", "U+DCC1">>,
     <<"U+D806", "U+DCC2">>, <<"U+D806", "U+DCC3">>, <<"U+D806", "U+DCC4">>,
     <<"U+D806", "U+DCC5">>, <<"U+D806", "U+DCC6">>, <<"U+D806", "U+DCC7">>,
     <<"U+D806", "U+DCC8">>, <<"U+D806", "U+DCC9">>, <<"U+D806", "U+DCCA">>,
     <<"U+D806", "U+DCCB">>, <<"U+D806", "U+DCCC">>, <<"U+D806", "U+DCCD">>,
     <<"U+D806", "U+DCCE">>, <<"U+D806", "U+DCCF">>, <<"U+D806", "U+DCD0">>,
     <<"U+D806", "U+DCD1">>, <<"U+D806", "U+DCD2">>, <<"U+D806", "U+DCD3">>,
     <<"U+D806", "U+DCD4">>, <<"U+D806", "U+DCD5">>, <<"U+D806", "U+DCD6">>,
     <<"U+D806", "U+DCD7">>, <<"U+D806", "U+DCD8">>, <<"U+D806", "U+DCD9">>,
     <<"U+D806", "U+DCDA">>, <<"U+D806", "U+DCDB">>, <<"U+D806", "U+DCDC">>,
     <<"U+D806", "U+DCDD">>, <<"U+D806", "U+DCDE">>, <<"U+D806", "U+DCDF">>,
     <<"U+D81B", "U+DE60">>, <<"U+D81B", "U+DE61">>, <<"U+D81B", "U+DE62">>,
     <<"U+D81B", "U+DE63">>, <<"U+D81B", "U+DE64">>, <<"U+D81B", "U+DE65">>,
     <<"U+D81B", "U+DE66">>, <<"U+D81B", "U+DE67">>, <<"U+D81B", "U+DE68">>,
     <<"U+D81B", "U+DE69">>, <<"U+D81B", "U+DE6A">>, <<"U+D81B", "U+DE6B">>,
     <<"U+D81B", "U+DE6C">>, <<"U+D81B", "U+DE6D">>, <<"U+D81B", "U+DE6E">>,
     <<"U+D81B", "U+DE6F">>, <<"U+D81B", "U+DE70">>, <<"U+D81B", "U+DE71">>,
     <<"U+D81B", "U+DE72">>, <<"U+D81B", "U+DE73">>, <<"U+D81B", "U+DE74">>,
     <<"U+D81B", "U+DE75">>, <<"U+D81B", "U+DE76">>, <<"U+D81B", "U+DE77">>,
     <<"U+D81B", "U+DE78">>, <<"U+D81B", "U+DE79">>, <<"U+D81B", "U+DE7A">>,
     <<"U+D81B", "U+DE7B">>, <<"U+D81B", "U+DE7C">>, <<"U+D81B", "U+DE7D">>,
     <<"U+D81B", "U+DE7E">>, <<"U+D81B", "U+DE7F">>, <<"U+D81B", "U+DEBB">>,
     <<"U+D81B", "U+DEBC">>, <<"U+D81B", "U+DEBD">>, <<"U+D81B", "U+DEBE">>,
     <<"U+D81B", "U+DEBF">>, <<"U+D81B", "U+DEC0">>, <<"U+D81B", "U+DEC1">>,
     <<"U+D81B", "U+DEC2">>, <<"U+D81B", "U+DEC3">>, <<"U+D81B", "U+DEC4">>,
     <<"U+D81B", "U+DEC5">>, <<"U+D81B", "U+DEC6">>, <<"U+D81B", "U+DEC7">>,
     <<"U+D81B", "U+DEC8">>, <<"U+D81B", "U+DEC9">>, <<"U+D81B", "U+DECA">>,
     <<"U+D81B", "U+DECB">>, <<"U+D81B", "U+DECC">>, <<"U+D81B", "U+DECD">>,
     <<"U+D81B", "U+DECE">>, <<"U+D81B", "U+DECF">>, <<"U+D81B", "U+DED0">>,
     <<"U+D81B", "U+DED1">>, <<"U+D81B", "U+DED2">>, <<"U+D81B", "U+DED3">>,
     <<"U+D83A", "U+DD22">>, <<"U+D83A", "U+DD23">>, <<"U+D83A", "U+DD24">>,
     <<"U+D83A", "U+DD25">>, <<"U+D83A", "U+DD26">>, <<"U+D83A", "U+DD27">>,
     <<"U+D83A", "U+DD28">>, <<"U+D83A", "U+DD29">>, <<"U+D83A", "U+DD2A">>,
     <<"U+D83A", "U+DD2B">>, <<"U+D83A", "U+DD2C">>, <<"U+D83A", "U+DD2D">>,
     <<"U+D83A", "U+DD2E">>, <<"U+D83A", "U+DD2F">>, <<"U+D83A", "U+DD30">>,
     <<"U+D83A", "U+DD31">>, <<"U+D83A", "U+DD32">>, <<"U+D83A", "U+DD33">>,
     <<"U+D83A", "U+DD34">>, <<"U+D83A", "U+DD35">>, <<"U+D83A", "U+DD36">>,
     <<"U+D83A", "U+DD37">>, <<"U+D83A", "U+DD38">>, <<"U+D83A", "U+DD39">>,
     <<"U+D83A", "U+DD3A">>, <<"U+D83A", "U+DD3B">>, <<"U+D83A", "U+DD3C">>,
     <<"U+D83A", "U+DD3D">>, <<"U+D83A", "U+DD3E">>, <<"U+D83A", "U+DD3F">>,
     <<"U+D83A", "U+DD40">>, <<"U+D83A", "U+DD41">>, <<"U+D83A", "U+DD42">>,
     <<"U+D83A", "U+DD43">> >>

\* the code units with the property Case_Ignorable
CaseIgnorable ==
  { "'", ".", ":", "^", "U+0060", "¨", "­", "¯", "´", "·", "¸", "U+02B0", "U+02B1", "U+02B2",
    "U+02B3", "U+02B4", "U+02B5", "U+02B6", "U+02B7", "U+02B8", "U+02B9", "U+02BA", "U+02BB",
    "U+02BC", "U+02BD", "U+02BE", "U+02BF", "U+02C0", "U+02C1", "U+02C2", "U+02C3", "U+02C4",
    "U+02C5", "U+02C6", "U+02C7", "U+02C8", "U+02C9", "U+02CA", "U+02CB", "U+02CC", "U+02CD",
    "U+02CE", "U+02CF", "U+02D0", "U+02D1", "U+02D2", "U+02D3", "U+02D4", "U+02D5", "U+02D6",
    "U+02D7", "U+02D8", "U+02D9", "U+02DA", "U+02DB", "U+02DC", "U+02DD", "U+02DE", "U+02DF",
    "U+02E0", "U+02E1", "U+02E2", "U+02E3", "U+02E4", "U+02E5", "U+02E6", "U+02E7", "U+02E8",
    "U+02E9", "U+02EA", "U+02EB", "U+02EC", "U+02ED", "U+02EE", "U+02EF", "U+02F0", "U+02F1",
    "U+02F2", "U+02F3", "U+02F4", "U+02F5", "U+02F6", "U+02F7", "U+02F8", "U+02F9", "U+02FA",
    "U+02FB", "U+02FC", "U+02FD", "U+02FE", "U+02FF", "U+0300", "U+0301", "U+0302", "U+0303",
    "U+0304", "U+0305", "U+0306", "U+0307", "U+0308", "U+0309", "U+030A", "U+030B", "U+030C",
    "U+030D", "U+030E", "U+030F", "U+0310", "U+0311", "U+0312", "U+0313", "U+0314", "U+0315",
    "U+0316", "U+0317", "U+0318", "U+0319", "U+031A", "U+031B", "U+031C", "U+031D", "U+031E",
    "U+031F", "U+0320", "U+0321", "U+0322", "U+0323", "U+0324", "U+0325", "U+0326", "U+0327",
    "U+0328", "U+0329", "U+032A", "U+032B", "U+032C", "U+032D", "U+032E", "U+032F", "U+0330",
    "U+0331", "U+0332", "U+0333", "U+0334", "U+0335", "U+0336", "U+0337", "U+0338", "U+0339",
    "U+033A", "U+033B", "U+033C", "U+033D", "U+033E", "U+033F", "U+0340", "U+0341", "U+0342",
    "U+0343", "U+0344", "U+0345", "U+0346", "U+0347", "U+0348", "U+0349", "U+034A", "U+034B",
    "U+034C", "U+034D", "U+034E", "U+034F", "U+0350", "U+0351", "U+0352", "U+0353", "U+0354",
    "U+0355", "U+0356", "U+0357", "U+0358", "U+0359", "U+035A", "U+035B", "U+035C", "U+035D",
    "U+035E", "U+035F", "U+0360", "U+0361", "U+0362", "U+0363", "U+0364", "U+0365", "U+0366",
    "U+0367", "U+0368", "U+0369", "U+036A", "U+036B", "U+036C", "U+036D", "U+036E", "U+036F",
    "U+0374", "U+0375", "U+037A", "U+0384", "U+0385", "U+0387", "U+0483", "U+0484", "U+0485",
    "U+0486", "U+0487", "U+0488", "U+0489", "U+0559", "U+055F", "U+0591", "U+0592", "U+0593",
    "U+0594", "U+0595", "U+0596", "U+0597", "U+0598", "U+0599", "U+059A", "U+059B", "U+059C",
    "U+059D", "U+059E", "U+059F", "U+05A0", "U+05A1", "U+05A2", "U+05A3", "U+05A4", "U+05A5",
    "U+05A6", "U+05A7", "U+05A8", "U+05A9", "U+05AA", "U+05AB", "U+05AC", "U+05AD", "U+05AE",
    "U+05AF", "U+05B0", "U+05B1", "U+05B2", "U+05B3", "U+05B4", "U+05B5", "U+05B6", "U+05B7",
    "U+05B8", "U+05B9", "U+05BA", "U+05BB", "U+05BC", "U+05BD", "U+05BF", "U+05C1", "U+05C2",
    "U+05C4", "U+05C5", "U+05C7", "U+05F4", "U+0600", "U+0601", "U+0602", "U+0603", "U+0604",
    "U+0605", "U+0610", "U+0611", "U+0612", "U+0613", "U+0614", "U+0615", "U+0616", "U+0617",
    "U+0618", "U+0619", "U+061A", "U+061C", "U+0640", "U+064B", "U+064C", "U+064D", "U+064E",
    "U+064F", "U+0650", "U+0651", "U+0652", "U+0653", "U+0654", "U+0655", "U+0656", "U+0657",
    "U+0658", "U+0659", "U+065A", "U+065B", "U+065C", "U+065D", "U+065E", "U+065F", "U+0670",
    "U+06D6", "U+06D7", "U+06D8", "U+06D9", "U+06DA", "U+06DB", "U+06DC", "U+06DD", "U+06DF",
    "U+06E0", "U+06E1", "U+06E2", "U+06E3", "U+06E4", "U+06E5", "U+06E6", "U+06E7", "U+06E8",
    "U+06EA", "U+06EB", "U+06EC", "U+06ED", "U+070F", "U+0711", "U+0730", "U+0731", "U+0732",
    "U+0733", "U+0734", "U+0735", "U+0736", "U+0737", "U+0738", "U+0739", "U+073A", "U+073B",
    "U+073C", "U+073D", "U+073E", "U+073F", "U+0740", "U+0741", "U+0742", "U+0743", "U+0744",
    "U+0745", "U+0746", "U+0747", "U+0748", "U+0749", "U+074A", "U+07A6", "U+07A7", "U+07A8",
    "U+07A9", "U+07AA", "U+07AB", "U+07AC", "U+07AD", "U+07AE", "U+07AF", "U+07B0", "U+07EB",
    "U+07EC", "U+07ED", "U+07EE", "U+07EF", "U+07F0", "U+07F1", "U+07F2", "U+07F3", "U+07F4",
    "U+07F5", "U+07FA", "U+07FD", "U+0816", "U+0817", "U+0818", "U+0819", "U+081A", "U+081B",
    "U+081C", "U+081D", "U+081E", "U+081F", "U+0820", "U+0821", "U+0822", "U+0823", "U+0824",
    "U+0825", "U+0826", "U+0827", "U+0828", "U+0829", "U+082A", "U+082B", "U+082C", "U+082D",
    "U+0859", "U+085A", "U+085B", "U+0888", "U+0890", "U+0891", "U+0897", "U+0898", "U+0899",
    "U+089A", "U+089B", "U+089C", "U+089D", "U+089E", "U+089F", "U+08C9", "U+08CA", "U+08CB",
    "U+08CC", "U+08CD", "U+08CE", "U+08CF", "U+08D0", "U+08D1", "U+08D2", "U+08D3", "U+08D4",
    "U+08D5", "U+08D6", "U+08D7", "U+08D8", "U+08D9", "U+08DA", "U+08DB", "U+08DC", "U+08DD",
    "U+08DE", "U+08DF", "U+08E0", "U+08E1", "U+08E2", "U+08E3", "U+08E4", "U+08E5", "U+08E6",
    "U+08E7", "U+08E8", "U+08E9", "U+08EA", "U+08EB", "U+08EC", "U+08ED", "U+08EE", "U+08EF",
    "U+08F0", "U+08F1", "U+08F2", "U+08F3", "U+08F4", "U+08F5", "U+08F6", "U+08F7", "U+08F8",
    "U+08F9", "U+08FA", "U+08FB", "U+08FC", "U+08FD", "U+08FE", "U+08FF", "U+0900", "U+0901",
    "U+0902", "U+093A", "U+093C", "U+0941", "U+0942", "U+0943", "U+0944", "U+0945", "U+0946",
    "U+0947", "U+0948", "U+094D", "U+0951", "U+0952", "U+0953", "U+0954", "U+0955", "U+0956",
    "U+0957", "U+0962", "U+0963", "U+0971", "U+0981", "U+09BC", "U+09C1", "U+09C2", "U+09C3",
    "U+09C4", "U+09CD", "U+09E2", "U+09E3", "U+09FE", "U+0A01", "U+0A02", "U+0A3C", "U+0A41",
    "U+0A42", "U+0A47", "U+0A48", "U+0A4B", "U+0A4C", "U+0A4D", "U+0A51", "U+0A70", "U+0A71",
    "U+0A75", "U+0A81", "U+0A82", "U+0ABC", "U+0AC1", "U+0AC2", "U+0AC3", "U+0AC4", "U+0AC5",
    "U+0AC7", "U+0AC8", "U+0ACD", "U+0AE2", "U+0AE3", "U+0AFA", "U+0AFB", "U+0AFC", "U+0AFD",
    "U+0AFE", "U+0AFF", "U+0B01", "U+0B3C", "U+0B3F", "U+0B41", "U+0B42", "U+0B43", "U+0B44",
    "U+0B4D", "U+0B55", "U+0B56", "U+0B62", "U+0B63", "U+0B82", "U+0BC0", "U+0BCD", "U+0C00",
    "U+0C04", "U+0C3C", "U+0C3E", "U+0C3F", "U+0C40", "U+0C46", "U+0C47", "U+0C48", "U+0C4A",
    "U+0C4B", "U+0C4C", "U+0C4D", "U+0C55", "U+0C56", "U+0C62", "U+0C63", "U+0C81", "U+0CBC",
    "U+0CBF", "U+0CC6", "U+0CCC", "U+0CCD", "U+0CE2", "U+0CE3", "U+0D00", "U+0D01", "U+0D3B",
    "U+0D3C", "U+0D41", "U+0D42", "U+0D43", "U+0D44", "U+0D4D", "U+0D62", "U+0D63", "U+0D81",
    "U+0DCA", "U+0DD2", "U+0DD3", "U+0DD4", "U+0DD6", "U+0E31", "U+0E34", "U+0E35", "U+0E36",
    "U+0E37", "U+0E38", "U+0E39", "U+0E3A", "U+0E46", "U+0E47", "U+0E48", "U+0E49", "U+0E4A",
    "U+0E4B", "U+0E4C", "U+0E4D", "U+0E4E", "U+0EB1", "U+0EB4", "U+0EB5", "U+0EB6", "U+0EB7",
    "U+0EB8", "U+0EB9", "U+0EBA", "U+0EBB", "U+0EBC", "U+0EC6", "U+0EC8", "U+0EC9", "U+0ECA",
    "U+0ECB", "U+0ECC", "U+0ECD", "U+0ECE", "U+0F18", "U+0F19", "U+0F35", "U+0F37", "U+0F39",
    "U+0F71", "U+0F72", "U+0F73", "U+0F74", "U+0F75", "U+0F76", "U+0F77", "U+0F78", "U+0F79",
    "U+0F7A", "U+0F7B", "U+0F7C", "U+0F7D", "U+0F7E", "U+0F80", "U+0F81", "U+0F82", "U+0F83",
    "U+0F84", "U+0F86", "U+0F87", "U+0F8D", "U+0F8E", "U+0F8F", "U+0F90", "U+0F91", "U+0F92",
    "U+0F93", "U+0F94", "U+0F95", "U+0F96", "U+0F97", "U+0F99", "U+0F9A", "U+0F9B", "U+0F9C",
    "U+0F9D", "U+0F9E", "U+0F9F", "U+0FA0", "U+0FA1", "U+0FA2", "U+0FA3", "U+0FA4", "U+0FA5",
    "U+0FA6", "U+0FA7", "U+0FA8", "U+0FA9", "U+0FAA", "U+0FAB", "U+0FAC", "U+0FAD", "U+0FAE",
    "U+0FAF", "U+0FB0", "U+0FB1", "U+0FB2", "U+0FB3", "U+0FB4", "U+0FB5", "U+0FB6", "U+0FB7",
    "U+0FB8", "U+0FB9", "U+0FBA", "U+0FBB", "U+0FBC", "U+0FC6", "U+102D", "U+102E", "U+102F",
    "U+1030", "U+1032", "U+1033", "U+1034", "U+1035", "U+1036", "U+1037", "U+1039", "U+103A",
    "U+103D", "U+103E", "U+1058", "U+1059", "U+105E", "U+105F", "U+1060", "U+1071", "U+1072",
    "U+1073", "U+1074", "U+1082", "U+1085", "U+1086", "U+108D", "U+109D", "U+10FC", "U+135D",
    "U+135E", "U+135F", "U+1712", "U+1713", "U+1714", "U+1732", "U+1733", "U+1752", "U+1753",
    "U+1772", "U+1773", "U+17B4", "U+17B5", "U+17B7", "U+17B8", "U+17B9", "U+17BA", "U+17BB",
    "U+17BC", "U+17BD", "U+17C6", "U+17C9", "U+17CA", "U+17CB", "U+17CC", "U+17CD", "U+17CE",
    "U+17CF", "U+17D0", "U+17D1", "U+17D2", "U+17D3", "U+17D7", "U+17DD", "U+180B", "U+180C",
    "U+180D", "U+180E", "U+180F", "U+1843", "U+1885", "U+1886", "U+18A9", "U+1920", "U+1921",
    "U+1922", "U+1927", "U+1928", "U+1932", "U+1939", "U+193A", "U+193B", "U+1A17", "U+1A18",
    "U+1A1B", "U+1A56", "U+1A58", "U+1A59", "U+1A5A", "U+1A5B", "U+1A5C", "U+1A5D", "U+1A5E",
    "U+1A60", "U+1A62", "U+1A65", "U+1A66", "U+1A67", "U+1A68", "U+1A69", "U+1A6A", "U+1A6B",
    "U+1A6C", "U+1A73", "U+1A74", "U+1A75", "U+1A76", "U+1A77", "U+1A78", "U+1A79", "U+1A7A",
    "U+1A7B", "U+1A7C", "U+1A7F", "U+1AA7", "U+1AB0", "U+1AB1", "U+1AB2", "U+1AB3", "U+1AB4",
    "U+1AB5", "U+1AB6", "U+1AB7", "U+1AB8", "U+1AB9", "U+1ABA", "U+1ABB", "U+1ABC", "U+1ABD",
    "U+1ABE", "U+1ABF", "U+1AC0", "U+1AC1", "U+1AC2", "U+1AC3", "U+1AC4", "U+1AC5", "U+1AC6",
    "U+1AC7", "U+1AC8", "U+1AC9", "U+1ACA", "U+1ACB", "U+1ACC", "U+1ACD", "U+1ACE", "U+1ACF",
    "U+1AD0", "U+1AD1", "U+1AD2", "U+1AD3", "U+1AD4", "U+1AD5", "U+1AD6", "U+1AD7", "U+1AD8",
    "U+1AD9", "U+1ADA", "U+1ADB", "U+1ADC", "U+1ADD", "U+1AE0", "U+1AE1", "U+1AE2", "U+1AE3",
    "U+1AE4", "U+1AE5", "U+1AE6", "U+1AE7", "U+1AE8", "U+1AE9", "U+1AEA", "U+1AEB", "U+1B00",
    "U+1B01", "U+1B02", "U+1B03", "U+1B34", "U+1B36", "U+1B37", "U+1B38", "U+1B39", "U+1B3A",
    "U+1B3C", "U+1B42", "U+1B6B", "U+1B6C", "U+1B6D", "U+1B6E", "U+1B6F", "U+1B70", "U+1B71",
    "U+1B72", "U+1B73", "U+1B80", "U+1B81", "U+1BA2", "U+1BA3", "U+1BA4", "U+1BA5", "U+1BA8",
    "U+1BA9", "U+1BAB", "U+1BAC", "U+1BAD", "U+1BE6", "U+1BE8", "U+1BE9", "U+1BED", "U+1BEF",
    "U+1BF0", "U+1BF1", "U+1C2C", "U+1C2D", "U+1C2E", "U+1C2F", "U+1C30", "U+1C31", "U+1C32",
    "U+1C33", "U+1C36", "U+1C37", "U+1C78", "U+1C79", "U+1C7A", "U+1C7B", "U+1C7C", "U+1C7D",
    "U+1CD0", "U+1CD1", "U+1CD2", "U+1CD4", "U+1CD5", "U+1CD6", "U+1CD7", "U+1CD8", "U+1CD9",
    "U+1CDA", "U+1CDB", "U+1CDC", "U+1CDD", "U+1CDE", "U+1CDF", "U+1CE0", "U+1CE2", "U+1CE3",
    "U+1CE4", "U+1CE5", "U+1CE6", "U+1CE7", "U+1CE8", "U+1CED", "U+1CF4", "U+1CF8", "U+1CF9",
    "U+1D2C", "U+1D2D", "U+1D2E", "U+1D2F", "U+1D30", "U+1D31", "U+1D32", "U+1D33", "U+1D34",
    "U+1D35", "U+1D36", "U+1D37", "U+1D38", "U+1D39", "U+1D3A", "U+1D3B", "U+1D3C", "U+1D3D",
    "U+1D3E", "U+1D3F", "U+1D40", "U+1D41", "U+1D42", "U+1D43", "U+1D44", "U+1D45", "U+1D46",
    "U+1D47", "U+1D48", "U+1D49", "U+1D4A", "U+1D4B", "U+1D4C", "U+1D4D", "U+1D4E", "U+1D4F",
    "U+1D50", "U+1D51", "U+1D52", "U+1D53", "U+1D54", "U+1D55", "U+1D56", "U+1D57", "U+1D58",
    "U+1D59", "U+1D5A", "U+1D5B", "U+1D5C", "U+1D5D", "U+1D5E", "U+1D5F", "U+1D60", "U+1D61",
    "U+1D62", "U+1D63", "U+1D64", "U+1D65", "U+1D66", "U+1D67", "U+1D68", "U+1D69", "U+1D6A",
    "U+1D78", "U+1D9B", "U+1D9C", "U+1D9D", "U+1D9E", "U+1D9F", "U+1DA0", "U+1DA1", "U+1DA2",
    "U+1DA3", "U+1DA4", "U+1DA5", "U+1DA6", "U+1DA7", "U+1DA8", "U+1DA9", "U+1DAA", "U+1DAB",
    "U+1DAC", "U+1DAD", "U+1DAE", "U+1DAF", "U+1DB0", "U+1DB1", "U+1DB2", "U+1DB3", "U+1DB4",
    "U+1DB5", "U+1DB6", "U+1DB7", "U+1DB8", "U+1DB9", "U+1DBA", "U+1DBB", "U+1DBC", "U+1DBD",
    "U+1DBE", "U+1DBF", "U+1DC0", "U+1DC1", "U+1DC2", "U+1DC3", "U+1DC4", "U+1DC5", "U+1DC6",
    "U+1DC7", "U+1DC8", "U+1DC9", "U+1DCA", "U+1DCB", "U+1DCC", "U+1DCD", "U+1DCE", "U+1DCF",
    "U+1DD0", "U+1DD1", "U+1DD2", "U+1DD3", "U+1DD4", "U+1DD5", "U+1DD6", "U+1DD7", "U+1DD8",
    "U+1DD9", "U+1DDA", "U+1DDB", "U+1DDC", "U+1DDD", "U+1DDE", "U+1DDF", "U+1DE0", "U+1DE1",
    "U+1DE2", "U+1DE3", "U+1DE4", "U+1DE5", "U+1DE6", "U+1DE7", "U+1DE8", "U+1DE9", "U+1DEA",
    "U+1DEB", "U+1DEC", "U+1DED", "U+1DEE", "U+1DEF", "U+1DF0", "U+1DF1", "U+1DF2", "U+1DF3",
    "U+1DF4", "U+1DF5", "U+1DF6", "U+1DF7", "U+1DF8", "U+1DF9", "U+1DFA", "U+1DFB", "U+1DFC",
    "U+1DFD", "U+1DFE", "U+1DFF", "U+1FBD", "U+1FBF", "U+1FC0", "U+1FC1", "U+1FCD", "U+1FCE",
    "U+1FCF", "U+1FDD", "U+1FDE", "U+1FDF", "U+1FED", "U+1FEE", "U+1FEF", "U+1FFD", "U+1FFE",
    "U+200B", "U+200C", "U+200D", "U+200E", "U+200F", "U+2018", "U+2019", "U+2024", "U+2027",
    "U+202A", "U+202B", "U+202C", "U+202D", "U+202E", "U+2060", "U+2061", "U+2062", "U+2063",
    "U+2064", "U+2066", "U+2067", "U+2068", "U+2069", "U+206A", "U+206B", "U+206C", "U+206D",
    "U+206E", "U+206F", "U+2071", "U+207F", "U+2090", "U+2091", "U+2092", "U+2093", "U+2094",
    "U+2095", "U+2096", "U+2097", "U+2098", "U+2099", "U+209A", "U+209B", "U+209C", "U+20D0",
    "U+20D1", "U+20D2", "U+20D3", "U+20D4", "U+20D5", "U+20D6", "U+20D7", "U+20D8", "U+20D9",
    "U+20DA", "U+20DB", "U+20DC", "U+20DD", "U+20DE", "U+20DF", "U+20E0", "U+20E1", "U+20E2",
    "U+20E3", "U+20E4", "U+20E5", "U+20E6", "U+20E7", "U+20E8", "U+20E9", "U+20EA", "U+20EB",
    "U+20EC", "U+20ED", "U+20EE", "U+20EF", "U+20F0", "U+2C7C", "U+2C7D", "U+2CEF", "U+2CF0",
    "U+2CF1", "U+2D6F", "U+2D7F", "U+2DE0", "U+2DE1", "U+2DE2", "U+2DE3", "U+2DE4", "U+2DE5",
    "U+2DE6", "U+2DE7", "U+2DE8", "U+2DE9", "U+2DEA", "U+2DEB", "U+2DEC", "U+2DED", "U+2DEE",
    "U+2DEF", "U+2DF0", "U+2DF1", "U+2DF2", "U+2DF3", "U+2DF4", "U+2DF5", "U+2DF6", "U+2DF7",
    "U+2DF8", "U+2DF9", "U+2DFA", "U+2DFB", "U+2DFC", "U+2DFD", "U+2DFE", "U+2DFF", "U+2E2F",
    "U+3005", "U+302A", "U+302B", "U+302C", "U+302D", "U+3031", "U+3032", "U+3033", "U+3034",
    "U+3035", "U+303B", "U+3099", "U+309A", "U+309B", "U+309C", "U+309D", "U+309E", "U+30FC",
    "U+30FD", "U+30FE", "U+A015", "U+A4F8", "U+A4F9", "U+A4FA", "U+A4FB", "U+A4FC", "U+A4FD",
    "U+A60C", "U+A66F", "U+A670", "U+A671", "U+A672", "U+A674", "U+A675", "U+A676", "U+A677",
    "U+A678", "U+A679", "U+A67A", "U+A67B", "U+A67C", "U+A67D", "U+A67F", "U+A69C", "U+A69D",
    "U+A69E", "U+A69F", "U+A6F0", "U+A6F1", "U+A700", "U+A701", "U+A702", "U+A703", "U+A704",
    "U+A705", "U+A706", "U+A707", "U+A708", "U+A709", "U+A70A", "U+A70B", "U+A70C", "U+A70D",
    "U+A70E", "U+A70F", "U+A710", "U+A711", "U+A712", "U+A713", "U+A714", "U+A715", "U+A716",
    "U+A717", "U+A718", "U+A719", "U+A71A", "U+A71B", "U+A71C", "U+A71D", "U+A71E", "U+A71F",
    "U+A720", "U+A721", "U+A770", "U+A788", "U+A789", "U+A78A", "U+A7F1", "U+A7F2", "U+A7F3",
    "U+A7F4", "U+A7F8", "U+A7F9", "U+A802", "U+A806", "U+A80B", "U+A825", "U+A826", "U+A82C",
    "U+A8C4", "U+A8C5", "U+A8E0", "U+A8E1", "U+A8E2", "U+A8E3", "U+A8E4", "U+A8E5", "U+A8E6",
    "U+A8E7", "U+A8E8", "U+A8E9", "U+A8EA", "U+A8EB", "U+A8EC", "U+A8ED", "U+A8EE", "U+A8EF",
    "U+A8F0", "U+A8F1", "U+A8FF", "U+A926", "U+A927", "U+A928", "U+A929", "U+A92A", "U+A92B",
    "U+A92C", "U+A92D", "U+A947", "U+A948", "U+A949", "U+A94A", "U+A94B", "U+A94C", "U+A94D",
    "U+A94E", "U+A94F", "U+A950", "U+A951", "U+A980", "U+A981", "U+A982", "U+A9B3", "U+A9B6",
    "U+A9B7", "U+A9B8", "U+A9B9", "U+A9BC", "U+A9BD", "U+A9CF", "U+A9E5", "U+A9E6", "U+AA29",
    "U+AA2A", "U+AA2B", "U+AA2C", "U+AA2D", "U+AA2E", "U+AA31", "U+AA32", "U+AA35", "U+AA36",
    "U+AA43", "U+AA4C", "U+AA70", "U+AA7C", "U+AAB0", "U+AAB2", "U+AAB3", "U+AAB4", "U+AAB7",
    "U+AAB8", "U+AABE", "U+AABF", "U+AAC1", "U+AADD", "U+AAEC", "U+AAED", "U+AAF3", "U+AAF4",
    "U+AAF6", "U+AB5B", "U+AB5C", "U+AB5D", "U+AB5E", "U+AB5F", "U+AB69", "U+AB6A", "U+AB6B",
    "U+ABE5", "U+ABE8", "U+ABED", "U+FB1E", "U+FBB2", "U+FBB3", "U+FBB4", "U+FBB5", "U+FBB6",
    "U+FBB7", "U+FBB8", "U+FBB9", "U+FBBA", "U+FBBB", "U+FBBC", "U+FBBD", "U+FBBE", "U+FBBF",
    "U+FBC0", "U+FBC1", "U+FBC2", "U+FE00", "U+FE01", "U+FE02", "U+FE03", "U+FE04", "U+FE05",
    "U+FE06", "U+FE07", "U+FE08", "U+FE09", "U+FE0A", "U+FE0B", "U+FE0C", "U+FE0D", "U+FE0E",
    "U+FE0F", "U+FE13", "U+FE20", "U+FE21", "U+FE22", "U+FE23", "U+FE24", "U+FE25", "U+FE26",
    "U+FE27", "U+FE28", "U+FE29", "U+FE2A", "U+FE2B", "U+FE2C", "U+FE2D", "U+FE2E", "U+FE2F",
    "U+FE52", "U+FE55", "U+FEFF", "U+FF07", "U+FF0E", "U+FF1A", "U+FF3E", "U+FF40", "U+FF70",
    "U+FF9E", "U+FF9F", "U+FFE3", "U+FFF9", "U+FFFA", "U+FFFB" }

\* the surrogate pairs of the code points with the property Case_Ignorable
CaseIgnorablePairs ==
  { <<"U+D800", "U+DDFD">>, <<"U+D800", "U+DEE0">>, <<"U+D800", "U+DF76">>,
    <<"U+D800", "U+DF77">>, <<"U+D800", "U+DF78">>, <<"U+D800", "U+DF79">>,
    <<"U+D800", "U+DF7A">>, <<"U+D801", "U+DF80">>, <<"U+D801", "U+DF81">>,
    <<"U+D801", "U+DF82">>, <<"U+D801", "U+DF83">>, <<"U+D801", "U+DF84">>,
    <<"U+D801", "U+DF85">>, <<"U+D801", "U+DF87">>, <<"U+D801", "U+DF88">>,
    <<"U+D801", "U+DF89">>, <<"U+D801", "U+DF8A">>, <<"U+D801", "U+DF8B">>,
    <<"U+D801", "U+DF8C">>, <<"U+D801", "U+DF8D">>, <<"U+D801", "U+DF8E">>,
    <<"U+D801", "U+DF8F">>, <<"U+D801", "U+DF90">>, <<"U+D801", "U+DF91">>,
    <<"U+D801", "U+DF92">>, <<"U+D801", "U+DF93">>, <<"U+D801", "U+DF94">>,
    <<"U+D801", "U+DF95">>, <<"U+D801", "U+DF96">>, <<"U+D801", "U+DF97">>,
    <<"U+D801", "U+DF98">>, <<"U+D801", "U+DF99">>, <<"U+D801", "U+DF9A">>,
    <<"U+D801", "U+DF9B">>, <<"U+D801", "U+DF9C">>, <<"U+D801", "U+DF9D">>,
    <<"U+D801", "U+DF9E">>, <<"U+D801", "U+DF9F">>, <<"U+D801", "U+DFA0">>,
    <<"U+D801", "U+DFA1">>, <<"U+D801", "U+DFA2">>, <<"U+D801", "U+DFA3">>,
    <<"U+D801", "U+DFA4">>, <<"U+D801", "U+DFA5">>, <<"U+D801", "U+DFA6">>,
    <<"U+D801", "U+DFA7">>, <<"U+D801", "U+DFA8">>, <<"U+D801", "U+DFA9">>,
    <<"U+D801", "U+DFAA">>, <<"U+D801", "U+DFAB">>, <<"U+D801", "U+DFAC">>,
    <<"U+D801", "U+DFAD">>, <<"U+D801", "U+DFAE">>, <<"U+D801", "U+DFAF">>,
    <<"U+D801", "U+DFB0">>, <<"U+D801", "U+DFB2">>, <<"U+D801", "U+DFB3">>,
    <<"U+D801", "U+DFB4">>, <<"U+D801", "U+DFB5">>, <<"U+D801", "U+DFB6">>,
    <<"U+D801", "U+DFB7">>, <<"U+D801", "U+DFB8">>, <<"U+D801", "U+DFB9">>,
    <<"U+D801", "U+DFBA">>, <<"U+D802", "U+DE01">>, <<"U+D802", "U+DE02">>,
    <<"U+D802", "U+DE03">>, <<"U+D802", "U+DE05">>, <<"U+D802", "U+DE06">>,
    <<"U+D802", "U+DE0C">>, <<"U+D802", "U+DE0D">>, <<"U+D802", "U+DE0E">>,
    <<"U+D802", "U+DE0F">>, <<"U+D802", "U+DE38">>, <<"U+D802", "U+DE39">>,
    <<"U+D802", "U+DE3A">>, <<"U+D802", "U+DE3F">>, <<"U+D802", "U+DEE5">>,
    <<"U+D802", "U+DEE6">>, <<"U+D803", "U+DD24">>, <<"U+D803", "U+DD25">>,
    <<"U+D803", "U+DD26">>, <<"U+D803", "U+DD27">>, <<"U+D803", "U+DD4E">>,
    <<"U+D803", "U+DD69">>, <<"U+D803", "U+DD6A">>, <<"U+D803", "U+DD6B">>,
    <<"U+D803", "U+DD6C">>, <<"U+D803", "U+DD6D">>, <<"U+D803", "U+DD6F">>,
    <<"U+D803", "U+DEAB">>, <<"U+D803", "U+DEAC">>, <<"U+D803", "U+DEC5">>,
    <<"U+D803", "U+DEFA">>, <<"U+D803", "U+DEFB">>, <<"U+D803", "U+DEFC">>,
    <<"U+D803", "U+DEFD">>, <<"U+D803", "U+DEFE">>, <<"U+D803", "U+DEFF">>,
    <<"U+D803", "U+DF46">>, <<"U+D803", "U+DF47">>, <<"U+D803", "U+DF48">>,
    <<"U+D803", "U+DF49">>, <<"U+D803", "U+DF4A">>, <<"U+D803", "U+DF4B">>,
    <<"U+D803", "U+DF4C">>, <<"U+D803", "U+DF4D">>, <<"U+D803", "U+DF4E">>,
    <<"U+D803", "U+DF4F">>, <<"U+D803", "U+DF50">>, <<"U+D803", "U+DF82">>,
    <<"U+D803", "U+DF83">>, <<"U+D803", "U+DF84">>, <<"U+D803", "U+DF85">>,
    <<"U+D804", "U+DC01">>, <<"U+D804", "U+DC38">>, <<"U+D804", "U+DC39">>,
    <<"U+D804", "U+DC3A">>, <<"U+D804", "U+DC3B">>, <<"U+D804", "U+DC3C">>,
    <<"U+D804", "U+DC3D">>, <<"U+D804", "U+DC3E">>, <<"U+D804", "U+DC3F">>,
    <<"U+D804", "U+DC40">>, <<"U+D804", "U+DC41">>, <<"U+D804", "U+DC42">>,
    <<"U+D804", "U+DC43">>, <<"U+D804", "U+DC44">>, <<"U+D804", "U+DC45">>,
    <<"U+D804", "U+DC46">>, <<"U+D804", "U+DC70">>, <<"U+D804", "U+DC73">>,
    <<"U+D804", "U+DC74">>, <<"U+D804", "U+DC7F">>, <<"U+D804", "U+DC80">>,
    <<"U+D804", "U+DC81">>, <<"U+D804", "U+DCB3">>, <<"U+D804", "U+DCB4">>,
    <<"U+D804", "U+DCB5">>, <<"U+D804", "U+DCB6">>, <<"U+D804", "U+DCB9">>,
    <<"U+D804", "U+DCBA">>, <<"U+D804", "U+DCBD">>, <<"U+D804", "U+DCC2">>,
    <<"U+D804", "U+DCCD">>, <<"U+D804", "U+DD00">>, <<"U+D804", "U+DD01">>,
    <<"U+D804", "U+DD02">>, <<"U+D804", "U+DD27">>, <<"U+D804", "U+DD28">>,
    <<"U+D804", "U+DD29">>, <<"U+D804", "U+DD2A">>, <<"U+D804", "U+DD2B">>,
    <<"U+D804", "U+DD2D">>, <<"U+D804", "U+DD2E">>, <<"U+D804", "U+DD2F">>,
    <<"U+D804", "U+DD30">>, <<"U+D804", "U+DD31">>, <<"U+D804", "U+DD32">>,
    <<"U+D804", "U+DD33">>, <<"U+D804", "U+DD34">>, <<"U+D804", "U+DD73">>,
    <<"U+D804", "U+DD80">>, <<"U+D804", "U+DD81">>, <<"U+D804", "U+DDB6">>,
    <<"U+D804", "U+DDB7">>, <<"U+D804", "U+DDB8">>, <<"U+D804", "U+DDB9">>,
    <<"U+D804", "U+DDBA">>, <<"U+D804", "U+DDBB">>, <<"U+D804", "U+DDBC">>,
    <<"U+D804", "U+DDBD">>, <<"U+D804", "U+DDBE">>, <<"U+D804", "U+DDC9">>,
    <<"U+D804", "U+DDCA">>, <<"U+D804", "U+DDCB">>, <<"U+D804", "U+DDCC">>,
    <<"U+D804", "U+DDCF">>, <<"U+D804", "U+DE2F">>, <<"U+D804", "U+DE30">>,
    <<"U+D804", "U+DE31">>, <<"U+D804", "U+DE34">>, <<"U+D804", "U+DE36">>,
    <<"U+D804", "U+DE37">>, <<"U+D804", "U+DE3E">>, <<"U+D804", "U+DE41">>,
    <<"U+D804", "U+DEDF">>, <<"U+D804", "U+DEE3">>, <<"U+D804", "U+DEE4">>,
    <<"U+D804", "U+DEE5">>, <<"U+D804", "U+DEE6">>, <<"U+D804", "U+DEE7">>,
    <<"U+D804", "U+DEE8">>, <<"U+D804", "U+DEE9">>, <<"U+D804", "U+DEEA">>,
    <<"U+D804", "U+DF00">>, <<"U+D804", "U+DF01">>, <<"U+D804", "U+DF3B">>,
    <<"U+D804", "U+DF3C">>, <<"U+D804", "U+DF40">>, <<"U+D804", "U+DF66">>,
    <<"U+D804", "U+DF67">>, <<"U+D804", "U+DF68">>, <<"U+D804", "U+DF69">>,
    <<"U+D804", "U+DF6A">>, <<"U+D804", "U+DF6B">>, <<"U+D804", "U+DF6C">>,
    <<"U+D804", "U+DF70">>, <<"U+D804", "U+DF71">>, <<"U+D804", "U+DF72">>,
    <<"U+D804", "U+DF73">>, <<"U+D804", "U+DF74">>, <<"U+D804", "U+DFBB">>,
    <<"U+D804", "U+DFBC">>, <<"U+D804", "U+DFBD">>, <<"U+D804", "U+DFBE">>,
    <<"U+D804", "U+DFBF">>, <<"U+D804", "U+DFC0">>, <<"U+D804", "U+DFCE">>,
    <<"U+D804", "U+DFD0">>, <<"U+D804", "U+DFD2">>, <<"U+D804", "U+DFE1">>,
    <<"U+D804", "U+DFE2">>, <<"U+D805", "U+DC38">>, <<"U+D805", "U+DC39">>,
    <<"U+D805", "U+DC3A">>, <<"U+D805", "U+DC3B">>, <<"U+D805", "U+DC3C">>,
    <<"U+D805", "U+DC3D">>, <<"U+D805", "U+DC3E">>, <<"U+D805", "U+DC3F">>,
    <<"U+D805", "U+DC42">>, <<"U+D805", "U+DC43">>, <<"U+D805", "U+DC44">>,
    <<"U+D805", "U+DC46">>, <<"U+D805", "U+DC5E">>, <<"U+D805", "U+DCB3">>,
    <<"U+D805", "U+DCB4">>, <<"U+D805", "U+DCB5">>, <<"U+D805", "U+DCB6">>,
    <<"U+D805", "U+DCB7">>, <<"U+D805", "U+DCB8">>, <<"U+D805", "U+DCBA">>,
    <<"U+D805", "U+DCBF">>, <<"U+D805", "U+DCC0">>, <<"U+D805", "U+DCC2">>,
    <<"U+D805", "U+DCC3">>, <<"U+D805", "U+DDB2">>, <<"U+D805", "U+DDB3">>,
    <<"U+D805", "U+DDB4">>, <<"U+D805", "U+DDB5">>, <<"U+D805", "U+DDBC">>,
    <<"U+D805", "U+DDBD">>, <<"U+D805", "U+DDBF">>, <<"U+D805", "U+DDC0">>,
    <<"U+D805", "U+DDDC">>, <<"U+D805", "U+DDDD">>, <<"U+D805", "U+DE33">>,
    <<"U+D805", "U+DE34">>, <<"U+D805", "U+DE35">>, <<"U+D805", "U+DE36">>,
    <<"U+D805", "U+DE37">>, <<"U+D805", "U+DE38">>, <<"U+D805", "U+DE39">>,
    <<"U+D805", "U+DE3A">>, <<"U+D805", "U+DE3D">>, <<"U+D805", "U+DE3F">>,
    <<"U+D805", "U+DE40">>, <<"U+D805", "U+DEAB">>, <<"U+D805", "U+DEAD">>,
    <<"U+D805", "U+DEB0">>, <<"U+D805", "U+DEB1">>, <<"U+D805", "U+DEB2">>,
    <<"U+D805", "U+DEB3">>, <<"U+D805", "U+DEB4">>, <<"U+D805", "U+DEB5">>,
    <<"U+D805", "U+DEB7">>, <<"U+D805", "U+DF1D">>, <<"U+D805", "U+DF1F">>,
    <<"U+D805", "U+DF22">>, <<"U+D805", "U+DF23">>, <<"U+D805", "U+DF24">>,
    <<"U+D805", "U+DF25">>, <<"U+D805", "U+DF27">>, <<"U+D805", "U+DF28">>,
    <<"U+D805", "U+DF29">>, <<"U+D805", "U+DF2A">>, <<"U+D805", "U+DF2B">>,
    <<"U+D806", "U+DC2F">>, <<"U+D806", "U+DC30">>, <<"U+D806", "U+DC31">>,
    <<"U+D806", "U+DC32">>, <<"U+D806", "U+DC33">>, <<"U+D806", "U+DC34">>,
    <<"U+D806", "U+DC35">>, <<"U+D806", "U+DC36">>, <<"U+D806", "U+DC37">>,
    <<"U+D806", "U+DC39">>, <<"U+D806", "U+DC3A">>, <<"U+D806", "U+DD3B">>,
    <<"U+D806", "U+DD3C">>, <<"U+D806", "U+DD3E">>, <<"U+D806", "U+DD43">>,
    <<"U+D806", "U+DDD4">>, <<"U+D806", "U+DDD5">>, <<"U+D806", "U+DDD6">>,
    <<"U+D806", "U+DDD7">>, <<"U+D806", "U+DDDA">>, <<"U+D806", "U+DDDB">>,
    <<"U+D806", "U+DDE0">>, <<"U+D806", "U+DE01">>, <<"U+D806", "U+DE02">>,
    <<"U+D806", "U+DE03">>, <<"U+D806", "U+DE04">>, <<"U+D806", "U+DE05">>,
    <<"U+D806", "U+DE06">>, <<"U+D806", "U+DE07">>, <<"U+D806", "U+DE08">>,
    <<"U+D806", "U+DE09">>, <<"U+D806", "U+DE0A">>, <<"U+D806", "U+DE33">>,
    <<"U+D806", "U+DE34">>, <<"U+D806", "U+DE35">>, <<"U+D806", "U+DE36">>,
    <<"U+D806", "U+DE37">>, <<"U+D806", "U+DE38">>, <<"U+D806", "U+DE3B">>,
    <<"U+D806", "U+DE3C">>, <<"U+D806", "U+DE3D">>, <<"U+D806", "U+DE3E">>,
    <<"U+D806", "U+DE47">>, <<"U+D806", "U+DE51">>, <<"U+D806", "U+DE52">>,
    <<"U+D806", "U+DE53">>, <<"U+D806", "U+DE54">>, <<"U+D806", "U+DE55">>,
    <<"U+D806", "U+DE56">>, <<"U+D806", "U+DE59">>, <<"U+D806", "U+DE5A">>,
    <<"U+D806", "U+DE5B">>, <<"U+D806", "U+DE8A">>, <<"U+D806", "U+DE8B">>,
    <<"U+D806", "U+DE8C">>, <<"U+D806", "U+DE8D">>, <<"U+D806", "U+DE8E">>,
    <<"U+D806", "U+DE8F">>, <<"U+D806", "U+DE90">>, <<"U+D806", "U+DE91">>,
    <<"U+D806", "U+DE92">>, <<"U+D806", "U+DE93">>, <<"U+D806", "U+DE94">>,
    <<"U+D806", "U+DE95">>, <<"U+D806", "U+DE96">>, <<"U+D806", "U+DE98">>,
    <<"U+D806", "U+DE99">>, <<"U+D806", "U+DF60">>, <<"U+D806", "U+DF62">>,
    <<"U+D806", "U+DF63">>, <<"U+D806", "U+DF64">>, <<"U+D806", "U+DF66">>,
    <<"U+D807", "U+DC30">>, <<"U+D807", "U+DC31">>, <<"U+D807", "U+DC32">>,
    <<"U+D807", "U+DC33">>, <<"U+D807", "U+DC34">>, <<"U+D807", "U+DC35">>,
    <<"U+D807", "U+DC36">>, <<"U+D807", "U+DC38">>, <<"U+D807", "U+DC39">>,
    <<"U+D807", "U+DC3A">>, <<"U+D807", "U+DC3B">>, <<"U+D807", "U+DC3C">>,
    <<"U+D807", "U+DC3D">>, <<"U+D807", "U+DC3F">>, <<"U+D807", "U+DC92">>,
    <<"U+D807", "U+DC93">>, <<"U+D807", "U+DC94">>, <<"U+D807", "U+DC95">>,
    <<"U+D807", "U+DC96">>, <<"U+D807", "U+DC97">>, <<"U+D807", "U+DC98">>,
    <<"U+D807", "U+DC99">>, <<"U+D807", "U+DC9A">>, <<"U+D807", "U+DC9B">>,
    <<"U+D807", "U+DC9C">>, <<"U+D807", "U+DC9D">>, <<"U+D807", "U+DC9E">>,
    <<"U+D807", "U+DC9F">>, <<"U+D807", "U+DCA0">>, <<"U+D807", "U+DCA1">>,
    <<"U+D807", "U+DCA2">>, <<"U+D807", "U+DCA3">>, <<"U+D807", "U+DCA4">>,
    <<"U+D807", "U+DCA5">>, <<"U+D807", "U+DCA6">>, <<"U+D807", "U+DCA7">>,
    <<"U+D807", "U+DCAA">>, <<"U+D807", "U+DCAB">>, <<"U+D807", "U+DCAC">>,
    <<"U+D807", "U+DCAD">>, <<"U+D807", "U+DCAE">>, <<"U+D807", "U+DCAF">>,
    <<"U+D807", "U+DCB0">>, <<"U+D807", "U+DCB2">>, <<"U+D807", "U+DCB3">>,
    <<"U+D807", "U+DCB5">>, <<"U+D807", "U+DCB6">>, <<"U+D807", "U+DD31">>,
    <<"U+D807", "U+DD32">>, <<"U+D807", "U+DD33">>, <<"U+D807", "U+DD34">>,
    <<"U+D807", "U+DD35">>, <<"U+D807", "U+DD36">>, <<"U+D807", "U+DD3A">>,
    <<"U+D807", "U+DD3C">>, <<"U+D807", "U+DD3D">>, <<"U+D807", "U+DD3F">>,
    <<"U+D807", "U+DD40">>, <<"U+D807", "U+DD41">>, <<"U+D807", "U+DD42">>,
    <<"U+D807", "U+DD43">>, <<"U+D807", "U+DD44">>, <<"U+D807", "U+DD45">>,
    <<"U+D807", "U+DD47">>, <<"U+D807", "U+DD90">>, <<"U+D807", "U+DD91">>,
    <<"U+D807", "U+DD95">>, <<"U+D807", "U+DD97">>, <<"U+D807", "U+DDD9">>,
    <<"U+D807", "U+DEF3">>, <<"U+D807", "U+DEF4">>, <<"U+D807", "U+DF00">>,
    <<"U+D807", "U+DF01">>, <<"U+D807", "U+DF36">>, <<"U+D807", "U+DF37">>,
    <<"U+D807", "U+DF38">>, <<"U+D807", "U+DF39">>, <<"U+D807", "U+DF3A">>,
    <<"U+D807", "U+DF40">>, <<"U+D807", "U+DF42">>, <<"U+D807", "U+DF5A">>,
    <<"U+D80D", "U+DC30">>, <<"U+D80D", "U+DC31">>, <<"U+D80D", "U+DC32">>,
    <<"U+D80D", "U+DC33">>, <<"U+D80D", "U+DC34">>, <<"U+D80D", "U+DC35">>,
    <<"U+D80D", "U+DC36">>, <<"U+D80D", "U+DC37">>, <<"U+D80D", "U+DC38">>,
    <<"U+D80D", "U+DC39">>, <<"U+D80D", "U+DC3A">>, <<"U+D80D", "U+DC3B">>,
    <<"U+D80D", "U+DC3C">>, <<"U+D80D", "U+DC3D">>, <<"U+D80D", "U+DC3E">>,
    <<"U+D80D", "U+DC3F">>, <<"U+D80D", "U+DC40">>, <<"U+D80D", "U+DC47">>,
    <<"U+D80D", "U+DC48">>, <<"U+D80D", "U+DC49">>, <<"U+D80D", "U+DC4A">>,
    <<"U+D80D", "U+DC4B">>, <<"U+D80D", "U+DC4C">>, <<"U+D80D", "U+DC4D">>,
    <<"U+D80D", "U+DC4E">>, <<"U+D80D", "U+DC4F">>, <<"U+D80D", "U+DC50">>,
    <<"U+D80D", "U+DC51">>, <<"U+D80D", "U+DC52">>, <<"U+D80D", "U+DC53">>,
    <<"U+D80D", "U+DC54">>, <<"U+D80D", "U+DC55">>, <<"U+D818", "U+DD1E">>,
    <<"U+D818", "U+DD1F">>, <<"U+D818", "U+DD20">>, <<"U+D818", "U+DD21">>,
    <<"U+D818", "U+DD22">>, <<"U+D818", "U+DD23">>, <<"U+D818", "U+DD24">>,
    <<"U+D818", "U+DD25">>, <<"U+D818", "U+DD26">>, <<"U+D818", "U+DD27">>,
    <<"U+D818", "U+DD28">>, <<"U+D818", "U+DD29">>, <<"U+D818", "U+DD2D">>,
    <<"U+D818", "U+DD2E">>, <<"U+D818", "U+DD2F">>, <<"U+D81A", "U+DEF0">>,
    <<"U+D81A", "U+DEF1">>, <<"U+D81A", "U+DEF2">>, <<"U+D81A", "U+DEF3">>,
    <<"U+D81A", "U+DEF4">>, <<"U+D81A", "U+DF30">>, <<"U+D81A", "U+DF31">>,
    <<"U+D81A", "U+DF32">>, <<"U+D81A", "U+DF33">>, <<"U+D81A", "U+DF34">>,
    <<"U+D81A", "U+DF35">>, <<"U+D81A", "U+DF36">>, <<"U+D81A", "U+DF40">>,
    <<"U+D81A", "U+DF41">>, <<"U+D81A", "U+DF42">>, <<"U+D81A", "U+DF43">>,
    <<"U+D81B", "U+DD40">>, <<"U+D81B", "U+DD41">>, <<"U+D81B", "U+DD42">>,
    <<"U+D81B", "U+DD6B">>, <<"U+D81B", "U+DD6C">>, <<"U+D81B", "U+DF4F">>,
    <<"U+D81B", "U+DF8F">>, <<"U+D81B", "U+DF90">>, <<"U+D81B", "U+DF91">>,
    <<"U+D81B", "U+DF92">>, <<"U+D81B", "U+DF93">>, <<"U+D81B", "U+DF94">>,
    <<"U+D81B", "U+DF95">>, <<"U+D81B", "U+DF96">>, <<"U+D81B", "U+DF97">>,
    <<"U+D81B", "U+DF98">>, <<"U+D81B", "U+DF99">>, <<"U+D81B", "U+DF9A">>,
    <<"U+D81B", "U+DF9B">>, <<"U+D81B", "U+DF9C">>, <<"U+D81B", "U+DF9D">>,
    <<"U+D81B", "U+DF9E">>, <<"U+D81B", "U+DF9F">>, <<"U+D81B", "U+DFE0">>,
    <<"U+D81B", "U+DFE1">>, <<"U+D81B", "U+DFE3">>, <<"U+D81B", "U+DFE4">>,
    <<"U+D81B", "U+DFF2">>, <<"U+D81B", "U+DFF3">>, <<"U+D82B", "U+DFF0">>,
    <<"U+D82B", "U+DFF1">>, <<"U+D82B", "U+DFF2">>, <<"U+D82B", "U+DFF3">>,
    <<"U+D82B", "U+DFF5">>, <<"U+D82B", "U+DFF6">>, <<"U+D82B", "U+DFF7">>,
    <<"U+D82B", "U+DFF8">>, <<"U+D82B", "U+DFF9">>, <<"U+D82B", "U+DFFA">>,
    <<"U+D82B", "U+DFFB">>, <<"U+D82B", "U+DFFD">>, <<"U+D82B", "U+DFFE">>,
    <<"U+D82F", "U+DC9D">>, <<"U+D82F", "U+DC9E">>, <<"U+D82F", "U+DCA0">>,
    <<"U+D82F", "U+DCA1">>, <<"U+D82F", "U+DCA2">>, <<"U+D82F", "U+DCA3">>,
    <<"U+D833", "U+DF00">>, <<"U+D833", "U+DF01">>, <<"U+D833", "U+DF02">>,
    <<"U+D833", "U+DF03">>, <<"U+D833", "U+DF04">>, <<"U+D833", "U+DF05">>,
    <<"U+D833", "U+DF06">>, <<"U+D833", "U+DF07">>, <<"U+D833", "U+DF08">>,
    <<"U+D833", "U+DF09">>, <<"U+D833", "U+DF0A">>, <<"U+D833", "U+DF0B">>,
    <<"U+D833", "U+DF0C">>, <<"U+D833", "U+DF0D">>, <<"U+D833", "U+DF0E">>,
    <<"U+D833", "U+DF0F">>, <<"U+D833", "U+DF10">>, <<"U+D833", "U+DF11">>,
    <<"U+D833", "U+DF12">>, <<"U+D833", "U+DF13">>, <<"U+D833", "U+DF14">>,
    <<"U+D833", "U+DF15">>, <<"U+D833", "U+DF16">>, <<"U+D833", "U+DF17">>,
    <<"U+D833", "U+DF18">>, <<"U+D833", "U+DF19">>, <<"U+D833", "U+DF1A">>,
    <<"U+D833", "U+DF1B">>, <<"U+D833", "U+DF1C">>, <<"U+D833", "U+DF1D">>,
    <<"U+D833", "U+DF1E">>, <<"U+D833", "U+DF1F">>, <<"U+D833", "U+DF20">>,
    <<"U+D833", "U+DF21">>, <<"U+D833", "U+DF22">>, <<"U+D833", "U+DF23">>,
    <<"U+D833", "U+DF24">>, <<"U+D833", "U+DF25">>, <<"U+D833", "U+DF26">>,
    <<"U+D833", "U+DF27">>, <<"U+D833", "U+DF28">>, <<"U+D833", "U+DF29">>,
    <<"U+D833", "U+DF2A">>, <<"U+D833", "U+DF2B">>, <<"U+D833", "U+DF2C">>,
    <<"U+D833", "U+DF2D">>, <<"U+D833", "U+DF30">>, <<"U+D833", "U+DF31">>,
    <<"U+D833", "U+DF32">>, <<"U+D833", "U+DF33">>, <<"U+D833", "U+DF34">>,
    <<"U+D833", "U+DF35">>, <<"U+D833", "U+DF36">>, <<"U+D833", "U+DF37">>,
    <<"U+D833", "U+DF38">>, <<"U+D833", "U+DF39">>, <<"U+D833", "U+DF3A">>,
    <<"U+D833", "U+DF3B">>, <<"U+D833", "U+DF3C">>, <<"U+D833", "U+DF3D">>,
    <<"U+D833", "U+DF3E">>, <<"U+D833", "U+DF3F">>, <<"U+D833", "U+DF40">>,
    <<"U+D833", "U+DF41">>, <<"U+D833", "U+DF42">>, <<"U+D833", "U+DF43">>,
    <<"U+D833", "U+DF44">>, <<"U+D833", "U+DF45">>, <<"U+D833", "U+DF46">>,
    <<"U+D834", "U+DD67">>, <<"U+D834", "U+DD68">>, <<"U+D834", "U+DD69">>,
    <<"U+D834", "U+DD73">>, <<"U+D834", "U+DD74">>, <<"U+D834", "U+DD75">>,
    <<"U+D834", "U+DD76">>, <<"U+D834", "U+DD77">>, <<"U+D834", "U+DD78">>,
    <<"U+D834", "U+DD79">>, <<"U+D834", "U+DD7A">>, <<"U+D834", "U+DD7B">>,
    <<"U+D834", "U+DD7C">>, <<"U+D834", "U+DD7D">>, <<"U+D834", "U+DD7E">>,
    <<"U+D834", "U+DD7F">>, <<"U+D834", "U+DD80">>, <<"U+D834", "U+DD81">>,
    <<"U+D834", "U+DD82">>, <<"U+D834", "U+DD85">>, <<"U+D834", "U+DD86">>,
    <<"U+D834", "U+DD87">>, <<"U+D834", "U+DD88">>, <<"U+D834", "U+DD89">>,
    <<"U+D834", "U+DD8A">>, <<"U+D834", "U+DD8B">>, <<"U+D834", "U+DDAA">>,
    <<"U+D834", "U+DDAB">>, <<"U+D834", "U+DDAC">>, <<"U+D834", "U+DDAD">>,
    <<"U+D834", "U+DE42">>, <<"U+D834", "U+DE43">>, <<"U+D834", "U+DE44">>,
    <<"U+D836", "U+DE00">>, <<"U+D836", "U+DE01">>, <<"U+D836", "U+DE02">>,
    <<"U+D836", "U+DE03">>, <<"U+D836", "U+DE04">>, <<"U+D836", "U+DE05">>,
    <<"U+D836", "U+DE06">>, <<"U+D836", "U+DE07">>, <<"U+D836", "U+DE08">>,
    <<"U+D836", "U+DE09">>, <<"U+D836", "U+DE0A">>, <<"U+D836", "U+DE0B">>,
    <<"U+D836", "U+DE0C">>, <<"U+D836", "U+DE0D">>, <<"U+D836", "U+DE0E">>,
    <<"U+D836", "U+DE0F">>, <<"U+D836", "U+DE10">>, <<"U+D836", "U+DE11">>,
    <<"U+D836", "U+DE12">>, <<"U+D836", "U+DE13">>, <<"U+D836", "U+DE14">>,
    <<"U+D836", "U+DE15">>, <<"U+D836", "U+DE16">>, <<"U+D836", "U+DE17">>,
    <<"U+D836", "U+DE18">>, <<"U+D836", "U+DE19">>, <<"U+D836", "U+DE1A">>,
    <<"U+D836", "U+DE1B">>, <<"U+D836", "U+DE1C">>, <<"U+D836", "U+DE1D">>,
    <<"U+D836", "U+DE1E">>, <<"U+D836", "U+DE1F">>, <<"U+D836", "U+DE20">>,
    <<"U+D836", "U+DE21">>, <<"U+D836", "U+DE22">>, <<"U+D836", "U+DE23">>,
    <<"U+D836", "U+DE24">>, <<"U+D836", "U+DE25">>, <<"U+D836", "U+DE26">>,
    <<"U+D836", "U+DE27">>, <<"U+D836", "U+DE28">>, <<"U+D836", "U+DE29">>,
    <<"U+D836", "U+DE2A">>, <<"U+D836", "U+DE2B">>, <<"U+D836", "U+DE2C">>,
    <<"U+D836", "U+DE2D">>, <<"U+D836", "U+DE2E">>, <<"U+D836", "U+DE2F">>,
    <<"U+D836", "U+DE30">>, <<"U+D836", "U+DE31">>, <<"U+D836", "U+DE32">>,
    <<"U+D836", "U+DE33">>, <<"U+D836", "U+DE34">>, <<"U+D836", "U+DE35">>,
    <<"U+D836", "U+DE36">>, <<"U+D836", "U+DE3B">>, <<"U+D836", "U+DE3C">>,
    <<"U+D836", "U+DE3D">>, <<"U+D836", "U+DE3E">>, <<"U+D836", "U+DE3F">>,
    <<"U+D836", "U+DE40">>, <<"U+D836", "U+DE41">>, <<"U+D836", "U+DE42">>,
    <<"U+D836", "U+DE43">>, <<"U+D836", "U+DE44">>, <<"U+D836", "U+DE45">>,
    <<"U+D836", "U+DE46">>, <<"U+D836", "U+DE47">>, <<"U+D836", "U+DE48">>,
    <<"U+D836", "U+DE49">>, <<"U+D836", "U+DE4A">>, <<"U+D836", "U+DE4B">>,
    <<"U+D836", "U+DE4C">>, <<"U+D836", "U+DE4D">>, <<"U+D836", "U+DE4E">>,
    <<"U+D836", "U+DE4F">>, <<"U+D836", "U+DE50">>, <<"U+D836", "U+DE51">>,
    <<"U+D836", "U+DE52">>, <<"U+D836", "U+DE53">>, <<"U+D836", "U+DE54">>,
    <<"U+D836", "U+DE55">>, <<"U+D836", "U+DE56">>, <<"U+D836", "U+DE57">>,
    <<"U+D836", "U+DE58">>, <<"U+D836", "U+DE59">>, <<"U+D836", "U+DE5A">>,
    <<"U+D836", "U+DE5B">>, <<"U+D836", "U+DE5C">>, <<"U+D836", "U+DE5D">>,
    <<"U+D836", "U+DE5E">>, <<"U+D836", "U+DE5F">>, <<"U+D836", "U+DE60">>,
    <<"U+D836", "U+DE61">>, <<"U+D836", "U+DE62">>, <<"U+D836", "U+DE63">>,
    <<"U+D836", "U+DE64">>, <<"U+D836", "U+DE65">>, <<"U+D836", "U+DE66">>,
    <<"U+D836", "U+DE67">>, <<"U+D836", "U+DE68">>, <<"U+D836", "U+DE69">>,
    <<"U+D836", "U+DE6A">>, <<"U+D836", "U+DE6B">>, <<"U+D836", "U+DE6C">>,
    <<"U+D836", "U+DE75">>, <<"U+D836", "U+DE84">>, <<"U+D836", "U+DE9B">>,
    <<"U+D836", "U+DE9C">>, <<"U+D836", "U+DE9D">>, <<"U+D836", "U+DE9E">>,
    <<"U+D836", "U+DE9F">>, <<"U+D836", "U+DEA1">>, <<"U+D836", "U+DEA2">>,
    <<"U+D836", "U+DEA3">>, <<"U+D836", "U+DEA4">>, <<"U+D836", "U+DEA5">>,
    <<"U+D836", "U+DEA6">>, <<"U+D836", "U+DEA7">>, <<"U+D836", "U+DEA8">>,
    <<"U+D836", "U+DEA9">>, <<"U+D836", "U+DEAA">>, <<"U+D836", "U+DEAB">>,
    <<"U+D836", "U+DEAC">>, <<"U+D836", "U+DEAD">>, <<"U+D836", "U+DEAE">>,
    <<"U+D836", "U+DEAF">>, <<"U+D838", "U+DC00">>, <<"U+D838", "U+DC01">>,
    <<"U+D838", "U+DC02">>, <<"U+D838", "U+DC03">>, <<"U+D838", "U+DC04">>,
    <<"U+D838", "U+DC05">>, <<"U+D838", "U+DC06">>, <<"U+D838", "U+DC08">>,
    <<"U+D838", "U+DC09">>, <<"U+D838", "U+DC0A">>, <<"U+D838", "U+DC0B">>,
    <<"U+D838", "U+DC0C">>, <<"U+D838", "U+DC0D">>, <<"U+D838", "U+DC0E">>,
    <<"U+D838", "U+DC0F">>, <<"U+D838", "U+DC10">>, <<"U+D838", "U+DC11">>,
    <<"U+D838", "U+DC12">>, <<"U+D838", "U+DC13">>, <<"U+D838", "U+DC14">>,
    <<"U+D838", "U+DC15">>, <<"U+D838", "U+DC16">>, <<"U+D838", "U+DC17">>,
    <<"U+D838", "U+DC18">>, <<"U+D838", "U+DC1B">>, <<"U+D838", "U+DC1C">>,
    <<"U+D838", "U+DC1D">>, <<"U+D838", "U+DC1E">>, <<"U+D838", "U+DC1F">>,
    <<"U+D838", "U+DC20">>, <<"U+D838", "U+DC21">>, <<"U+D838", "U+DC23">>,
    <<"U+D838", "U+DC24">>, <<"U+D838", "U+DC26">>, <<"U+D838", "U+DC27">>,
    <<"U+D838", "U+DC28">>, <<"U+D838", "U+DC29">>, <<"U+D838", "U+DC2A">>,
    <<"U+D838", "U+DC30">>, <<"U+D838", "U+DC31">>, <<"U+D838", "U+DC32">>,
    <<"U+D838", "U+DC33">>, <<"U+D838", "U+DC34">>, <<"U+D838", "U+DC35">>,
    <<"U+D838", "U+DC36">>, <<"U+D838", "U+DC37">>, <<"U+D838", "U+DC38">>,
    <<"U+D838", "U+DC39">>, <<"U+D838", "U+DC3A">>, <<"U+D838", "U+DC3B">>,
    <<"U+D838", "U+DC3C">>, <<"U+D838", "U+DC3D">>, <<"U+D838", "U+DC3E">>,
    <<"U+D838", "U+DC3F">>, <<"U+D838", "U+DC40">>, <<"U+D838", "U+DC41">>,
    <<"U+D838", "U+DC42">>, <<"U+D838", "U+DC43">>, <<"U+D838", "U+DC44">>,
    <<"U+D838", "U+DC45">>, <<"U+D838", "U+DC46">>, <<"U+D838", "U+DC47">>,
    <<"U+D838", "U+DC48">>, <<"U+D838", "U+DC49">>, <<"U+D838", "U+DC4A">>,
    <<"U+D838", "U+DC4B">>, <<"U+D838", "U+DC4C">>, <<"U+D838", "U+DC4D">>,
    <<"U+D838", "U+DC4E">>, <<"U+D838", "U+DC4F">>, <<"U+D838", "U+DC50">>,
    <<"U+D838", "U+DC51">>, <<"U+D838", "U+DC52">>, <<"U+D838", "U+DC53">>,
    <<"U+D838", "U+DC54">>, <<"U+D838", "U+DC55">>, <<"U+D838", "U+DC56">>,
    <<"U+D838", "U+DC57">>, <<"U+D838", "U+DC58">>, <<"U+D838", "U+DC59">>,
    <<"U+D838", "U+DC5A">>, <<"U+D838", "U+DC5B">>, <<"U+D838", "U+DC5C">>,
    <<"U+D838", "U+DC5D">>, <<"U+D838", "U+DC5E">>, <<"U+D838", "U+DC5F">>,
    <<"U+D838", "U+DC60">>, <<"U+D838", "U+DC61">>, <<"U+D838", "U+DC62">>,
    <<"U+D838", "U+DC63">>, <<"U+D838", "U+DC64">>, <<"U+D838", "U+DC65">>,
    <<"U+D838", "U+DC66">>, <<"U+D838", "U+DC67">>, <<"U+D838", "U+DC68">>,
    <<"U+D838", "U+DC69">>, <<"U+D838", "U+DC6A">>, <<"U+D838", "U+DC6B">>,
    <<"U+D838", "U+DC6C">>, <<"U+D838", "U+DC6D">>, <<"U+D838", "U+DC8F">>,
    <<"U+D838", "U+DD30">>, <<"U+D838", "U+DD31">>, <<"U+D838", "U+DD32">>,
    <<"U+D838", "U+DD33">>, <<"U+D838", "U+DD34">>, <<"U+D838", "U+DD35">>,
    <<"U+D838", "U+DD36">>, <<"U+D838", "U+DD37">>, <<"U+D838", "U+DD38">>,
    <<"U+D838", "U+DD39">>, <<"U+D838", "U+DD3A">>, <<"U+D838", "U+DD3B">>,
    <<"U+D838", "U+DD3C">>, <<"U+D838", "U+DD3D">>, <<"U+D838", "U+DEAE">>,
    <<"U+D838", "U+DEEC">>, <<"U+D838", "U+DEED">>, <<"U+D838", "U+DEEE">>,
    <<"U+D838", "U+DEEF">>, <<"U+D839", "U+DCEB">>, <<"U+D839", "U+DCEC">>,
    <<"U+D839", "U+DCED">>, <<"U+D839", "U+DCEE">>, <<"U+D839", "U+DCEF">>,
    <<"U+D839", "U+DDEE">>, <<"U+D839", "U+DDEF">>, <<"U+D839", "U+DEE3">>,
    <<"U+D839", "U+DEE6">>, <<"U+D839", "U+DEEE">>, <<"U+D839", "U+DEEF">>,
    <<"U+D839", "U+DEF5">>, <<"U+D839", "U+DEFF">>, <<"U+D83A", "U+DCD0">>,
    <<"U+D83A", "U+DCD1">>, <<"U+D83A", "U+DCD2">>, <<"U+D83A", "U+DCD3">>,
    <<"U+D83A", "U+DCD4">>, <<"U+D83A", "U+DCD5">>, <<"U+D83A", "U+DCD6">>,
    <<"U+D83A", "U+DD44">>, <<"U+D83A", "U+DD45">>, <<"U+D83A", "U+DD46">>,
    <<"U+D83A", "U+DD47">>, <<"U+D83A", "U+DD48">>, <<"U+D83A", "U+DD49">>,
    <<"U+D83A", "U+DD4A">>, <<"U+D83A", "U+DD4B">>, <<"U+D83C", "U+DFFB">>,
    <<"U+D83C", "U+DFFC">>, <<"U+D83C", "U+DFFD">>, <<"U+D83C", "U+DFFE">>,
    <<"U+D83C", "U+DFFF">>, <<"U+DB40", "U+DC01">>, <<"U+DB40", "U+DC20">>,
    <<"U+DB40", "U+DC21">>, <<"U+DB40", "U+DC22">>, <<"U+DB40", "U+DC23">>,
    <<"U+DB40", "U+DC24">>, <<"U+DB40", "U+DC25">>, <<"U+DB40", "U+DC26">>,
    <<"U+DB40", "U+DC27">>, <<"U+DB40", "U+DC28">>, <<"U+DB40", "U+DC29">>,
    <<"U+DB40", "U+DC2A">>, <<"U+DB40", "U+DC2B">>, <<"U+DB40", "U+DC2C">>,
    <<"U+DB40", "U+DC2D">>, <<"U+DB40", "U+DC2E">>, <<"U+DB40", "U+DC2F">>,
    <<"U+DB40", "U+DC30">>, <<"U+DB40", "U+DC31">>, <<"U+DB40", "U+DC32">>,
    <<"U+DB40", "U+DC33">>, <<"U+DB40", "U+DC34">>, <<"U+DB40", "U+DC35">>,
    <<"U+DB40", "U+DC36">>, <<"U+DB40", "U+DC37">>, <<"U+DB40", "U+DC38">>,
    <<"U+DB40", "U+DC39">>, <<"U+DB40", "U+DC3A">>, <<"U+DB40", "U+DC3B">>,
    <<"U+DB40", "U+DC3C">>, <<"U+DB40", "U+DC3D">>, <<"U+DB40", "U+DC3E">>,
    <<"U+DB40", "U+DC3F">>, <<"U+DB40", "U+DC40">>, <<"U+DB40", "U+DC41">>,
    <<"U+DB40", "U+DC42">>, <<"U+DB40", "U+DC43">>, <<"U+DB40", "U+DC44">>,
    <<"U+DB40", "U+DC45">>, <<"U+DB40", "U+DC46">>, <<"U+DB40", "U+DC47">>,
    <<"U+DB40", "U+DC48">>, <<"U+DB40", "U+DC49">>, <<"U+DB40", "U+DC4A">>,
    <<"U+DB40", "U+DC4B">>, <<"U+DB40", "U+DC4C">>, <<"U+DB40", "U+DC4D">>,
    <<"U+DB40", "U+DC4E">>, <<"U+DB40", "U+DC4F">>, <<"U+DB40", "U+DC50">>,
    <<"U+DB40", "U+DC51">>, <<"U+DB40", "U+DC52">>, <<"U+DB40", "U+DC53">>,
    <<"U+DB40", "U+DC54">>, <<"U+DB40", "U+DC55">>, <<"U+DB40", "U+DC56">>,
    <<"U+DB40", "U+DC57">>, <<"U+DB40", "U+DC58">>, <<"U+DB40", "U+DC59">>,
    <<"U+DB40", "U+DC5A">>, <<"U+DB40", "U+DC5B">>, <<"U+DB40", "U+DC5C">>,
    <<"U+DB40", "U+DC5D">>, <<"U+DB40", "U+DC5E">>, <<"U+DB40", "U+DC5F">>,
    <<"U+DB40", "U+DC60">>, <<"U+DB40", "U+DC61">>, <<"U+DB40", "U+DC62">>,
    <<"U+DB40", "U+DC63">>, <<"U+DB40", "U+DC64">>, <<"U+DB40", "U+DC65">>,
    <<"U+DB40", "U+DC66">>, <<"U+DB40", "U+DC67">>, <<"U+DB40", "U+DC68">>,
    <<"U+DB40", "U+DC69">>, <<"U+DB40", "U+DC6A">>, <<"U+DB40", "U+DC6B">>,
    <<"U+DB40", "U+DC6C">>, <<"U+DB40", "U+DC6D">>, <<"U+DB40", "U+DC6E">>,
    <<"U+DB40", "U+DC6F">>, <<"U+DB40", "U+DC70">>, <<"U+DB40", "U+DC71">>,
    <<"U+DB40", "U+DC72">>, <<"U+DB40", "U+DC73">>, <<"U+DB40", "U+DC74">>,
    <<"U+DB40", "U+DC75">>, <<"U+DB40", "U+DC76">>, <<"U+DB40", "U+DC77">>,
    <<"U+DB40", "U+DC78">>, <<"U+DB40", "U+DC79">>, <<"U+DB40", "U+DC7A">>,
    <<"U+DB40", "U+DC7B">>, <<"U+DB40", "U+DC7C">>, <<"U+DB40", "U+DC7D">>,
    <<"U+DB40", "U+DC7E">>, <<"U+DB40", "U+DC7F">>, <<"U+DB40", "U+DD00">>,
    <<"U+DB40", "U+DD01">>, <<"U+DB40", "U+DD02">>, <<"U+DB40", "U+DD03">>,
    <<"U+DB40", "U+DD04">>, <<"U+DB40", "U+DD05">>, <<"U+DB40", "U+DD06">>,
    <<"U+DB40", "U+DD07">>, <<"U+DB40", "U+DD08">>, <<"U+DB40", "U+DD09">>,
    <<"U+DB40", "U+DD0A">>, <<"U+DB40", "U+DD0B">>, <<"U+DB40", "U+DD0C">>,
    <<"U+DB40", "U+DD0D">>, <<"U+DB40", "U+DD0E">>, <<"U+DB40", "U+DD0F">>,
    <<"U+DB40", "U+DD10">>, <<"U+DB40", "U+DD11">>, <<"U+DB40", "U+DD12">>,
    <<"U+DB40", "U+DD13">>, <<"U+DB40", "U+DD14">>, <<"U+DB40", "U+DD15">>,
    <<"U+DB40", "U+DD16">>, <<"U+DB40", "U+DD17">>, <<"U+DB40", "U+DD18">>,
    <<"U+DB40", "U+DD19">>, <<"U+DB40", "U+DD1A">>, <<"U+DB40", "U+DD1B">>,
    <<"U+DB40", "U+DD1C">>, <<"U+DB40", "U+DD1D">>, <<"U+DB40", "U+DD1E">>,
    <<"U+DB40", "U+DD1F">>, <<"U+DB40", "U+DD20">>, <<"U+DB40", "U+DD21">>,
    <<"U+DB40", "U+DD22">>, <<"U+DB40", "U+DD23">>, <<"U+DB40", "U+DD24">>,
    <<"U+DB40", "U+DD25">>, <<"U+DB40", "U+DD26">>, <<"U+DB40", "U+DD27">>,
    <<"U+DB40", "U+DD28">>, <<"U+DB40", "U+DD29">>, <<"U+DB40", "U+DD2A">>,
    <<"U+DB40", "U+DD2B">>, <<"U+DB40", "U+DD2C">>, <<"U+DB40", "U+DD2D">>,
    <<"U+DB40", "U+DD2E">>, <<"U+DB40", "U+DD2F">>, <<"U+DB40", "U+DD30">>,
    <<"U+DB40", "U+DD31">>, <<"U+DB40", "U+DD32">>, <<"U+DB40", "U+DD33">>,
    <<"U+DB40", "U+DD34">>, <<"U+DB40", "U+DD35">>, <<"U+DB40", "U+DD36">>,
    <<"U+DB40", "U+DD37">>, <<"U+DB40", "U+DD38">>, <<"U+DB40", "U+DD39">>,
    <<"U+DB40", "U+DD3A">>, <<"U+DB40", "U+DD3B">>, <<"U+DB40", "U+DD3C">>,
    <<"U+DB40", "U+DD3D">>, <<"U+DB40", "U+DD3E">>, <<"U+DB40", "U+DD3F">>,
    <<"U+DB40", "U+DD40">>, <<"U+DB40", "U+DD41">>, <<"U+DB40", "U+DD42">>,
    <<"U+DB40", "U+DD43">>, <<"U+DB40", "U+DD44">>, <<"U+DB40", "U+DD45">>,
    <<"U+DB40", "U+DD46">>, <<"U+DB40", "U+DD47">>, <<"U+DB40", "U+DD48">>,
    <<"U+DB40", "U+DD49">>, <<"U+DB40", "U+DD4A">>, <<"U+DB40", "U+DD4B">>,
    <<"U+DB40", "U+DD4C">>, <<"U+DB40", "U+DD4D">>, <<"U+DB40", "U+DD4E">>,
    <<"U+DB40", "U+DD4F">>, <<"U+DB40", "U+DD50">>, <<"U+DB40", "U+DD51">>,
    <<"U+DB40", "U+DD52">>, <<"U+DB40", "U+DD53">>, <<"U+DB40", "U+DD54">>,
    <<"U+DB40", "U+DD55">>, <<"U+DB40", "U+DD56">>, <<"U+DB40", "U+DD57">>,
    <<"U+DB40", "U+DD58">>, <<"U+DB40", "U+DD59">>, <<"U+DB40", "U+DD5A">>,
    <<"U+DB40", "U+DD5B">>, <<"U+DB40", "U+DD5C">>, <<"U+DB40", "U+DD5D">>,
    <<"U+DB40", "U+DD5E">>, <<"U+DB40", "U+DD5F">>, <<"U+DB40", "U+DD60">>,
    <<"U+DB40", "U+DD61">>, <<"U+DB40", "U+DD62">>, <<"U+DB40", "U+DD63">>,
    <<"U+DB40", "U+DD64">>, <<"U+DB40", "U+DD65">>, <<"U+DB40", "U+DD66">>,
    <<"U+DB40", "U+DD67">>, <<"U+DB40", "U+DD68">>, <<"U+DB40", "U+DD69">>,
    <<"U+DB40", "U+DD6A">>, <<"U+DB40", "U+DD6B">>, <<"U+DB40", "U+DD6C">>,
    <<"U+DB40", "U+DD6D">>, <<"U+DB40", "U+DD6E">>, <<"U+DB40", "U+DD6F">>,
    <<"U+DB40", "U+DD70">>, <<"U+DB40", "U+DD71">>, <<"U+DB40", "U+DD72">>,
    <<"U+DB40", "U+DD73">>, <<"U+DB40", "U+DD74">>, <<"U+DB40", "U+DD75">>,
    <<"U+DB40", "U+DD76">>, <<"U+DB40", "U+DD77">>, <<"U+DB40", "U+DD78">>,
    <<"U+DB40", "U+DD79">>, <<"U+DB40", "U+DD7A">>, <<"U+DB40", "U+DD7B">>,
    <<"U+DB40", "U+DD7C">>, <<"U+DB40", "U+DD7D">>, <<"U+DB40", "U+DD7E">>,
    <<"U+DB40", "U+DD7F">>, <<"U+DB40", "U+DD80">>, <<"U+DB40", "U+DD81">>,
    <<"U+DB40", "U+DD82">>, <<"U+DB40", "U+DD83">>, <<"U+DB40", "U+DD84">>,
    <<"U+DB40", "U+DD85">>, <<"U+DB40", "U+DD86">>, <<"U+DB40", "U+DD87">>,
    <<"U+DB40", "U+DD88">>, <<"U+DB40", "U+DD89">>, <<"U+DB40", "U+DD8A">>,
    <<"U+DB40", "U+DD8B">>, <<"U+DB40", "U+DD8C">>, <<"U+DB40", "U+DD8D">>,
    <<"U+DB40", "U+DD8E">>, <<"U+DB40", "U+DD8F">>, <<"U+DB40", "U+DD90">>,
    <<"U+DB40", "U+DD91">>, <<"U+DB40", "U+DD92">>, <<"U+DB40", "U+DD93">>,
    <<"U+DB40", "U+DD94">>, <<"U+DB40", "U+DD95">>, <<"U+DB40", "U+DD96">>,
    <<"U+DB40", "U+DD97">>, <<"U+DB40", "U+DD98">>, <<"U+DB40", "U+DD99">>,
    <<"U+DB40", "U+DD9A">>, <<"U+DB40", "U+DD9B">>, <<"U+DB40", "U+DD9C">>,
    <<"U+DB40", "U+DD9D">>, <<"U+DB40", "U+DD9E">>, <<"U+DB40", "U+DD9F">>,
    <<"U+DB40", "U+DDA0">>, <<"U+DB40", "U+DDA1">>, <<"U+DB40", "U+DDA2">>,
    <<"U+DB40", "U+DDA3">>, <<"U+DB40", "U+DDA4">>, <<"U+DB40", "U+DDA5">>,
    <<"U+DB40", "U+DDA6">>, <<"U+DB40", "U+DDA7">>, <<"U+DB40", "U+DDA8">>,
    <<"U+DB40", "U+DDA9">>, <<"U+DB40", "U+DDAA">>, <<"U+DB40", "U+DDAB">>,
    <<"U+DB40", "U+DDAC">>, <<"U+DB40", "U+DDAD">>, <<"U+DB40", "U+DDAE">>,
    <<"U+DB40", "U+DDAF">>, <<"U+DB40", "U+DDB0">>, <<"U+DB40", "U+DDB1">>,
    <<"U+DB40", "U+DDB2">>, <<"U+DB40", "U+DDB3">>, <<"U+DB40", "U+DDB4">>,
    <<"U+DB40", "U+DDB5">>, <<"U+DB40", "U+DDB6">>, <<"U+DB40", "U+DDB7">>,
    <<"U+DB40", "U+DDB8">>, <<"U+DB40", "U+DDB9">>, <<"U+DB40", "U+DDBA">>,
    <<"U+DB40", "U+DDBB">>, <<"U+DB40", "U+DDBC">>, <<"U+DB40", "U+DDBD">>,
    <<"U+DB40", "U+DDBE">>, <<"U+DB40", "U+DDBF">>, <<"U+DB40", "U+DDC0">>,
    <<"U+DB40", "U+DDC1">>, <<"U+DB40", "U+DDC2">>, <<"U+DB40", "U+DDC3">>,
    <<"U+DB40", "U+DDC4">>, <<"U+DB40", "U+DDC5">>, <<"U+DB40", "U+DDC6">>,
    <<"U+DB40", "U+DDC7">>, <<"U+DB40", "U+DDC8">>, <<"U+DB40", "U+DDC9">>,
    <<"U+DB40", "U+DDCA">>, <<"U+DB40", "U+DDCB">>, <<"U+DB40", "U+DDCC">>,
    <<"U+DB40", "U+DDCD">>, <<"U+DB40", "U+DDCE">>, <<"U+DB40", "U+DDCF">>,
    <<"U+DB40", "U+DDD0">>, <<"U+DB40", "U+DDD1">>, <<"U+DB40", "U+DDD2">>,
    <<"U+DB40", "U+DDD3">>, <<"U+DB40", "U+DDD4">>, <<"U+DB40", "U+DDD5">>,
    <<"U+DB40", "U+DDD6">>, <<"U+DB40", "U+DDD7">>, <<"U+DB40", "U+DDD8">>,
    <<"U+DB40", "U+DDD9">>, <<"U+DB40", "U+DDDA">>, <<"U+DB40", "U+DDDB">>,
    <<"U+DB40", "U+DDDC">>, <<"U+DB40", "U+DDDD">>, <<"U+DB40", "U+DDDE">>,
    <<"U+DB40", "U+DDDF">>, <<"U+DB40", "U+DDE0">>, <<"U+DB40", "U+DDE1">>,
    <<"U+DB40", "U+DDE2">>, <<"U+DB40", "U+DDE3">>, <<"U+DB40", "U+DDE4">>,
    <<"U+DB40", "U+DDE5">>, <<"U+DB40", "U+DDE6">>, <<"U+DB40", "U+DDE7">>,
    <<"U+DB40", "U+DDE8">>, <<"U+DB40", "U+DDE9">>, <<"U+DB40", "U+DDEA">>,
    <<"U+DB40", "U+DDEB">>, <<"U+DB40", "U+DDEC">>, <<"U+DB40", "U+DDED">>,
    <<"U+DB40", "U+DDEE">>, <<"U+DB40", "U+DDEF">> }

\* the code units with the property Cased that are not Case_Ignorable
Cased ==
  { "A", "B", "C", "D", "E", "F", "G", "H", "I", "J", "K", "L", "M", "N", "O", "P", "Q", "R",
    "S", "T", "U", "V", "W", "X", "Y", "Z", "a", "b", "c", "d", "e", "f", "g", "h", "i", "j",
    "k", "l", "m", "n", "o", "p", "q", "r", "s", "t", "u", "v", "w", "x", "y", "z", "ª", "µ",
    "º", "À", "Á", "Â", "Ã", "Ä", "Å", "Æ", "Ç", "È", "É", "Ê", "Ë", "Ì", "Í", "Î", "Ï", "Ð",
    "Ñ", "Ò", "Ó", "Ô", "Õ", "Ö", "Ø", "Ù", "Ú", "Û", "Ü", "Ý", "Þ", "ß", "à", "á", "â", "ã",
    "ä", "å", "æ", "ç", "è", "é", "ê", "ë", "ì", "í", "î", "ï", "ð", "ñ", "ò", "ó", "ô", "õ",
    "ö", "ø", "ù", "ú", "û", "ü", "ý", "þ", "ÿ", "U+0100", "U+0101", "U+0102", "U+0103",
    "U+0104", "U+0105", "U+0106", "U+0107", "U+0108", "U+0109", "U+010A", "U+010B", "U+010C",
    "U+010D", "U+010E", "U+010F", "U+0110", "U+0111", "U+0112", "U+0113", "U+0114", "U+0115",
    "U+0116", "U+0117", "U+0118", "U+0119", "U+011A", "U+011B", "U+011C", "U+011D", "U+011E",
    "U+011F", "U+0120", "U+0121", "U+0122", "U+0123", "U+0124", "U+0125", "U+0126", "U+0127",
    "U+0128", "U+0129", "U+012A", "U+012B", "U+012C", "U+012D", "U+012E", "U+012F", "U+0130",
    "U+0131", "U+0132", "U+0133", "U+0134", "U+0135", "U+0136", "U+0137", "U+0138", "U+0139",
    "U+013A", "U+013B", "U+013C", "U+013D", "U+013E", "U+013F", "U+0140", "U+0141", "U+0142",
    "U+0143", "U+0144", "U+0145", "U+0146", "U+0147", "U+0148", "U+0149", "U+014A", "U+014B",
    "U+014C", "U+014D", "U+014E", "U+014F", "U+0150", "U+0151", "U+0152", "U+0153", "U+0154",
    "U+0155", "U+0156", "U+0157", "U+0158", "U+0159", "U+015A", "U+015B", "U+015C", "U+015D",
    "U+015E", "U+015F", "U+0160", "U+0161", "U+0162", "U+0163", "U+0164", "U+0165", "U+0166",
    "U+0167", "U+0168", "U+0169", "U+016A", "U+016B", "U+016C", "U+016D", "U+016E", "U+016F",
    "U+0170", "U+0171", "U+0172", "U+0173", "U+0174", "U+0175", "U+0176", "U+0177", "U+0178",
    "U+0179", "U+017A", "U+017B", "U+017C", "U+017D", "U+017E", "U+017F", "U+0180", "U+0181",
    "U+0182", "U+0183", "U+0184", "U+0185", "U+0186", "U+0187", "U+0188", "U+0189", "U+018A",
    "U+018B", "U+018C", "U+018D", "U+018E", "U+018F", "U+0190", "U+0191", "U+0192", "U+0193",
    "U+0194", "U+0195", "U+0196", "U+0197", "U+0198", "U+0199", "U+019A", "U+019B", "U+019C",
    "U+019D", "U+019E", "U+019F", "U+01A0", "U+01A1", "U+01A2", "U+01A3", "U+01A4", "U+01A5",
    "U+01A6", "U+01A7", "U+01A8", "U+01A9", "U+01AA", "U+01AB", "U+01AC", "U+01AD", "U+01AE",
    "U+01AF", "U+01B0", "U+01B1", "U+01B2", "U+01B3", "U+01B4", "U+01B5", "U+01B6", "U+01B7",
    "U+01B8", "U+01B9", "U+01BA", "U+01BC", "U+01BD", "U+01BE", "U+01BF", "U+01C4", "U+01C5",
    "U+01C6", "U+01C7", "U+01C8", "U+01C9", "U+01CA", "U+01CB", "U+01CC", "U+01CD", "U+01CE",
    "U+01CF", "U+01D0", "U+01D1", "U+01D2", "U+01D3", "U+01D4", "U+01D5", "U+01D6", "U+01D7",
    "U+01D8", "U+01D9", "U+01DA", "U+01DB", "U+01DC", "U+01DD", "U+01DE", "U+01DF", "U+01E0",
    "U+01E1", "U+01E2", "U+01E3", "U+01E4", "U+01E5", "U+01E6", "U+01E7", "U+01E8", "U+01E9",
    "U+01EA", "U+01EB", "U+01EC", "U+01ED", "U+01EE", "U+01EF", "U+01F0", "U+01F1", "U+01F2",
    "U+01F3", "U+01F4", "U+01F5", "U+01F6", "U+01F7", "U+01F8", "U+01F9", "U+01FA", "U+01FB",
    "U+01FC", "U+01FD", "U+01FE", "U+01FF", "U+0200", "U+0201", "U+0202", "U+0203", "U+0204",
    "U+0205", "U+0206", "U+0207", "U+0208", "U+0209", "U+020A", "U+020B", "U+020C", "U+020D",
    "U+020E", "U+020F", "U+0210", "U+0211", "U+0212", "U+0213", "U+0214", "U+0215", "U+0216",
    "U+0217", "U+0218", "U+0219", "U+021A", "U+021B", "U+021C", "U+021D", "U+021E", "U+021F",
    "U+0220", "U+0221", "U+0222", "U+0223", "U+0224", "U+0225", "U+0226", "U+0227", "U+0228",
    "U+0229", "U+022A", "U+022B", "U+022C", "U+022D", "U+022E", "U+022F", "U+0230", "U+0231",
    "U+0232", "U+0233", "U+0234", "U+0235", "U+0236", "U+0237", "U+0238", "U+0239", "U+023A",
    "U+023B", "U+023C", "U+023D", "U+023E", "U+023F", "U+0240", "U+0241", "U+0242", "U+0243",
    "U+0244", "U+0245", "U+0246", "U+0247", "U+0248", "U+0249", "U+024A", "U+024B", "U+024C",
    "U+024D", "U+024E", "U+024F", "U+0250", "U+0251", "U+0252", "U+0253", "U+0254", "U+0255",
    "U+0256", "U+0257", "U+0258", "U+0259", "U+025A", "U+025B", "U+025C", "U+025D", "U+025E",
    "U+025F", "U+0260", "U+0261", "U+0262", "U+0263", "U+0264", "U+0265", "U+0266", "U+0267",
    "U+0268", "U+0269", "U+026A", "U+026B", "U+026C", "U+026D", "U+026E", "U+026F", "U+0270",
    "U+0271", "U+0272", "U+0273", "U+0274", "U+0275", "U+0276", "U+0277", "U+0278", "U+0279",
    "U+027A", "U+027B", "U+027C", "U+027D", "U+027E", "U+027F", "U+0280", "U+0281", "U+0282",
    "U+0283", "U+0284", "U+0285", "U+0286", "U+0287", "U+0288", "U+0289", "U+028A", "U+028B",
    "U+028C", "U+028D", "U+028E", "U+028F", "U+0290", "U+0291", "U+0292", "U+0293", "U+0296",
    "U+0297", "U+0298", "U+0299", "U+029A", "U+029B", "U+029C", "U+029D", "U+029E", "U+029F",
    "U+02A0", "U+02A1", "U+02A2", "U+02A3", "U+02A4", "U+02A5", "U+02A6", "U+02A7", "U+02A8",
    "U+02A9", "U+02AA", "U+02AB", "U+02AC", "U+02AD", "U+02AE", "U+02AF", "U+0370", "U+0371",
    "U+0372", "U+0373", "U+0376", "U+0377", "U+037B", "U+037C", "U+037D", "U+037F", "U+0386",
    "U+0388", "U+0389", "U+038A", "U+038C", "U+038E", "U+038F", "U+0390", "U+0391", "U+0392",
    "U+0393", "U+0394", "U+0395", "U+0396", "U+0397", "U+0398", "U+0399", "U+039A", "U+039B",
    "U+039C", "U+039D", "U+039E", "U+039F", "U+03A0", "U+03A1", "U+03A3", "U+03A4", "U+03A5",
    "U+03A6", "U+03A7", "U+03A8", "U+03A9", "U+03AA", "U+03AB", "U+03AC", "U+03AD", "U+03AE",
    "U+03AF", "U+03B0", "U+03B1", "U+03B2", "U+03B3", "U+03B4", "U+03B5", "U+03B6", "U+03B7",
    "U+03B8", "U+03B9", "U+03BA", "U+03BB", "U+03BC", "U+03BD", "U+03BE", "U+03BF", "U+03C0",
    "U+03C1", "U+03C2", "U+03C3", "U+03C4", "U+03C5", "U+03C6", "U+03C7", "U+03C8", "U+03C9",
    "U+03CA", "U+03CB", "U+03CC", "U+03CD", "U+03CE", "U+03CF", "U+03D0", "U+03D1", "U+03D2",
    "U+03D3", "U+03D4", "U+03D5", "U+03D6", "U+03D7", "U+03D8", "U+03D9", "U+03DA", "U+03DB",
    "U+03DC", "U+03DD", "U+03DE", "U+03DF", "U+03E0", "U+03E1", "U+03E2", "U+03E3", "U+03E4",
    "U+03E5", "U+03E6", "U+03E7", "U+03E8", "U+03E9", "U+03EA", "U+03EB", "U+03EC", "U+03ED",
    "U+03EE", "U+03EF", "U+03F0", "U+03F1", "U+03F2", "U+03F3", "U+03F4", "U+03F5", "U+03F7",
    "U+03F8", "U+03F9", "U+03FA", "U+03FB", "U+03FC", "U+03FD", "U+03FE", "U+03FF", "U+0400",
    "U+0401", "U+0402", "U+0403", "U+0404", "U+0405", "U+0406", "U+0407", "U+0408", "U+0409",
    "U+040A", "U+040B", "U+040C", "U+040D", "U+040E", "U+040F", "U+0410", "U+0411", "U+0412",
    "U+0413", "U+0414", "U+0415", "U+0416", "U+0417", "U+0418", "U+0419", "U+041A", "U+041B",
    "U+041C", "U+041D", "U+041E", "U+041F", "U+0420", "U+0421", "U+0422", "U+0423", "U+0424",
    "U+0425", "U+0426", "U+0427", "U+0428", "U+0429", "U+042A", "U+042B", "U+042C", "U+042D",
    "U+042E", "U+042F", "U+0430", "U+0431", "U+0432", "U+0433", "U+0434", "U+0435", "U+0436",
    "U+0437", "U+0438", "U+0439", "U+043A", "U+043B", "U+043C", "U+043D", "U+043E", "U+043F",
    "U+0440", "U+0441", "U+0442", "U+0443", "U+0444", "U+0445", "U+0446", "U+0447", "U+0448",
    "U+0449", "U+044A", "U+044B", "U+044C", "U+044D", "U+044E", "U+044F", "U+0450", "U+0451",
    "U+0452", "U+0453", "U+0454", "U+0455", "U+0456", "U+0457", "U+0458", "U+0459", "U+045A",
    "U+045B", "U+045C", "U+045D", "U+045E", "U+045F", "U+0460", "U+0461", "U+0462", "U+0463",
    "U+0464", "U+0465", "U+0466", "U+0467", "U+0468", "U+0469", "U+046A", "U+046B", "U+046C",
    "U+046D", "U+046E", "U+046F", "U+0470", "U+0471", "U+0472", "U+0473", "U+0474", "U+0475",
    "U+0476", "U+0477", "U+0478", "U+0479", "U+047A", "U+047B", "U+047C", "U+047D", "U+047E",
    "U+047F", "U+0480", "U+0481", "U+048A", "U+048B", "U+048C", "U+048D", "U+048E", "U+048F",
    "U+0490", "U+0491", "U+0492", "U+0493", "U+0494", "U+0495", "U+0496", "U+0497", "U+0498",
    "U+0499", "U+049A", "U+049B", "U+049C", "U+049D", "U+049E", "U+049F", "U+04A0", "U+04A1",
    "U+04A2", "U+04A3", "U+04A4", "U+04A5", "U+04A6", "U+04A7", "U+04A8", "U+04A9", "U+04AA",
    "U+04AB", "U+04AC", "U+04AD", "U+04AE", "U+04AF", "U+04B0", "U+04B1", "U+04B2", "U+04B3",
    "U+04B4", "U+04B5", "U+04B6", "U+04B7", "U+04B8", "U+04B9", "U+04BA", "U+04BB", "U+04BC",
    "U+04BD", "U+04BE", "U+04BF", "U+04C0", "U+04C1", "U+04C2", "U+04C3", "U+04C4", "U+04C5",
    "U+04C6", "U+04C7", "U+04C8", "U+04C9", "U+04CA", "U+04CB", "U+04CC", "U+04CD", "U+04CE",
    "U+04CF", "U+04D0", "U+04D1", "U+04D2", "U+04D3", "U+04D4", "U+04D5", "U+04D6", "U+04D7",
    "U+04D8", "U+04D9", "U+04DA", "U+04DB", "U+04DC", "U+04DD", "U+04DE", "U+04DF", "U+04E0",
    "U+04E1", "U+04E2", "U+04E3", "U+04E4", "U+04E5", "U+04E6", "U+04E7", "U+04E8", "U+04E9",
    "U+04EA", "U+04EB", "U+04EC", "U+04ED", "U+04EE", "U+04EF", "U+04F0", "U+04F1", "U+04F2",
    "U+04F3", "U+04F4", "U+04F5", "U+04F6", "U+04F7", "U+04F8", "U+04F9", "U+04FA", "U+04FB",
    "U+04FC", "U+04FD", "U+04FE", "U+04FF", "U+0500", "U+0501", "U+0502", "U+0503", "U+0504",
    "U+0505", "U+0506", "U+0507", "U+0508", "U+0509", "U+050A", "U+050B", "U+050C", "U+050D",
    "U+050E", "U+050F", "U+0510", "U+0511", "U+0512", "U+0513", "U+0514", "U+0515", "U+0516",
    "U+0517", "U+0518", "U+0519", "U+051A", "U+051B", "U+051C", "U+051D", "U+051E", "U+051F",
    "U+0520", "U+0521", "U+0522", "U+0523", "U+0524", "U+0525", "U+0526", "U+0527", "U+0528",
    "U+0529", "U+052A", "U+052B", "U+052C", "U+052D", "U+052E", "U+052F", "U+0531", "U+0532",
    "U+0533", "U+0534", "U+0535", "U+0536", "U+0537", "U+0538", "U+0539", "U+053A", "U+053B",
    "U+053C", "U+053D", "U+053E", "U+053F", "U+0540", "U+0541", "U+0542", "U+0543", "U+0544",
    "U+0545", "U+0546", "U+0547", "U+0548", "U+0549", "U+054A", "U+054B", "U+054C", "U+054D",
    "U+054E", "U+054F", "U+0550", "U+0551", "U+0552", "U+0553", "U+0554", "U+0555", "U+0556",
    "U+0560", "U+0561", "U+0562", "U+0563", "U+0564", "U+0565", "U+0566", "U+0567", "U+0568",
    "U+0569", "U+056A", "U+056B", "U+056C", "U+056D", "U+056E", "U+056F", "U+0570", "U+0571",
    "U+0572", "U+0573", "U+0574", "U+0575", "U+0576", "U+0577", "U+0578", "U+0579", "U+057A",
    "U+057B", "U+057C", "U+057D", "U+057E", "U+057F", "U+0580", "U+0581", "U+0582", "U+0583",
    "U+0584", "U+0585", "U+0586", "U+0587", "U+0588", "U+10A0", "U+10A1", "U+10A2", "U+10A3",
    "U+10A4", "U+10A5", "U+10A6", "U+10A7", "U+10A8", "U+10A9", "U+10AA", "U+10AB", "U+10AC",
    "U+10AD", "U+10AE", "U+10AF", "U+10B0", "U+10B1", "U+10B2", "U+10B3", "U+10B4", "U+10B5",
    "U+10B6", "U+10B7", "U+10B8", "U+10B9", "U+10BA", "U+10BB", "U+10BC", "U+10BD", "U+10BE",
    "U+10BF", "U+10C0", "U+10C1", "U+10C2", "U+10C3", "U+10C4", "U+10C5", "U+10C7", "U+10CD",
    "U+10D0", "U+10D1", "U+10D2", "U+10D3", "U+10D4", "U+10D5", "U+10D6", "U+10D7", "U+10D8",
    "U+10D9", "U+10DA", "U+10DB", "U+10DC", "U+10DD", "U+10DE", "U+10DF", "U+10E0", "U+10E1",
    "U+10E2", "U+10E3", "U+10E4", "U+10E5", "U+10E6", "U+10E7", "U+10E8", "U+10E9", "U+10EA",
    "U+10EB", "U+10EC", "U+10ED", "U+10EE", "U+10EF", "U+10F0", "U+10F1", "U+10F2", "U+10F3",
    "U+10F4", "U+10F5", "U+10F6", "U+10F7", "U+10F8", "U+10F9", "U+10FA", "U+10FD", "U+10FE",
    "U+10FF", "U+13A0", "U+13A1", "U+13A2", "U+13A3", "U+13A4", "U+13A5", "U+13A6", "U+13A7",
    "U+13A8", "U+13A9", "U+13AA", "U+13AB", "U+13AC", "U+13AD", "U+13AE", "U+13AF", "U+13B0",
    "U+13B1", "U+13B2", "U+13B3", "U+13B4", "U+13B5", "U+13B6", "U+13B7", "U+13B8", "U+13B9",
    "U+13BA", "U+13BB", "U+13BC", "U+13BD", "U+13BE", "U+13BF", "U+13C0", "U+13C1", "U+13C2",
    "U+13C3", "U+13C4", "U+13C5", "U+13C6", "U+13C7", "U+13C8", "U+13C9", "U+13CA", "U+13CB",
    "U+13CC", "U+13CD", "U+13CE", "U+13CF", "U+13D0", "U+13D1", "U+13D2", "U+13D3", "U+13D4",
    "U+13D5", "U+13D6", "U+13D7", "U+13D8", "U+13D9", "U+13DA", "U+13DB", "U+13DC", "U+13DD",
    "U+13DE", "U+13DF", "U+13E0", "U+13E1", "U+13E2", "U+13E3", "U+13E4", "U+13E5", "U+13E6",
    "U+13E7", "U+13E8", "U+13E9", "U+13EA", "U+13EB", "U+13EC", "U+13ED", "U+13EE", "U+13EF",
    "U+13F0", "U+13F1", "U+13F2", "U+13F3", "U+13F4", "U+13F5", "U+13F8", "U+13F9", "U+13FA",
    "U+13FB", "U+13FC", "U+13FD", "U+1C80", "U+1C81", "U+1C82", "U+1C83", "U+1C84", "U+1C85",
    "U+1C86", "U+1C87", "U+1C88", "U+1C89", "U+1C8A", "U+1C90", "U+1C91", "U+1C92", "U+1C93",
    "U+1C94", "U+1C95", "U+1C96", "U+1C97", "U+1C98", "U+1C99", "U+1C9A", "U+1C9B", "U+1C9C",
    "U+1C9D", "U+1C9E", "U+1C9F", "U+1CA0", "U+1CA1", "U+1CA2", "U+1CA3", "U+1CA4", "U+1CA5",
    "U+1CA6", "U+1CA7", "U+1CA8", "U+1CA9", "U+1CAA", "U+1CAB", "U+1CAC", "U+1CAD", "U+1CAE",
    "U+1CAF", "U+1CB0", "U+1CB1", "U+1CB2", "U+1CB3", "U+1CB4", "U+1CB5", "U+1CB6", "U+1CB7",
    "U+1CB8", "U+1CB9", "U+1CBA", "U+1CBD", "U+1CBE", "U+1CBF", "U+1D00", "U+1D01", "U+1D02",
    "U+1D03", "U+1D04", "U+1D05", "U+1D06", "U+1D07", "U+1D08", "U+1D09", "U+1D0A", "U+1D0B",
    "U+1D0C", "U+1D0D", "U+1D0E", "U+1D0F", "U+1D10", "U+1D11", "U+1D12", "U+1D13", "U+1D14",
    "U+1D15", "U+1D16", "U+1D17", "U+1D18", "U+1D19", "U+1D1A", "U+1D1B", "U+1D1C", "U+1D1D",
    "U+1D1E", "U+1D1F", "U+1D20", "U+1D21", "U+1D22", "U+1D23", "U+1D24", "U+1D25", "U+1D26",
    "U+1D27", "U+1D28", "U+1D29", "U+1D2A", "U+1D2B", "U+1D6B", "U+1D6C", "U+1D6D", "U+1D6E",
    "U+1D6F", "U+1D70", "U+1D71", "U+1D72", "U+1D73", "U+1D74", "U+1D75", "U+1D76", "U+1D77",
    "U+1D79", "U+1D7A", "U+1D7B", "U+1D7C", "U+1D7D", "U+1D7E", "U+1D7F", "U+1D80", "U+1D81",
    "U+1D82", "U+1D83", "U+1D84", "U+1D85", "U+1D86", "U+1D87", "U+1D88", "U+1D89", "U+1D8A",
    "U+1D8B", "U+1D8C", "U+1D8D", "U+1D8E", "U+1D8F", "U+1D90", "U+1D91", "U+1D92", "U+1D93",
    "U+1D94", "U+1D95", "U+1D96", "U+1D97", "U+1D98", "U+1D99", "U+1D9A", "U+1E00", "U+1E01",
    "U+1E02", "U+1E03", "U+1E04", "U+1E05", "U+1E06", "U+1E07", "U+1E08", "U+1E09", "U+1E0A",
    "U+1E0B", "U+1E0C", "U+1E0D", "U+1E0E", "U+1E0F", "U+1E10", "U+1E11", "U+1E12", "U+1E13",
    "U+1E14", "U+1E15", "U+1E16", "U+1E17", "U+1E18", "U+1E19", "U+1E1A", "U+1E1B", "U+1E1C",
    "U+1E1D", "U+1E1E", "U+1E1F", "U+1E20", "U+1E21", "U+1E22", "U+1E23", "U+1E24", "U+1E25",
    "U+1E26", "U+1E27", "U+1E28", "U+1E29", "U+1E2A", "U+1E2B", "U+1E2C", "U+1E2D", "U+1E2E",
    "U+1E2F", "U+1E30", "U+1E31", "U+1E32", "U+1E33", "U+1E34", "U+1E35", "U+1E36", "U+1E37",
    "U+1E38", "U+1E39", "U+1E3A", "U+1E3B", "U+1E3C", "U+1E3D", "U+1E3E", "U+1E3F", "U+1E40",
    "U+1E41", "U+1E42", "U+1E43", "U+1E44", "U+1E45", "U+1E46", "U+1E47", "U+1E48", "U+1E49",
    "U+1E4A", "U+1E4B", "U+1E4C", "U+1E4D", "U+1E4E", "U+1E4F", "U+1E50", "U+1E51", "U+1E52",
    "U+1E53", "U+1E54", "U+1E55", "U+1E56", "U+1E57", "U+1E58", "U+1E59", "U+1E5A", "U+1E5B",
    "U+1E5C", "U+1E5D", "U+1E5E", "U+1E5F", "U+1E60", "U+1E61", "U+1E62", "U+1E63", "U+1E64",
    "U+1E65", "U+1E66", "U+1E67", "U+1E68", "U+1E69", "U+1E6A", "U+1E6B", "U+1E6C", "U+1E6D",
    "U+1E6E", "U+1E6F", "U+1E70", "U+1E71", "U+1E72", "U+1E73", "U+1E74", "U+1E75", "U+1E76",
    "U+1E77", "U+1E78", "U+1E79", "U+1E7A", "U+1E7B", "U+1E7C", "U+1E7D", "U+1E7E", "U+1E7F",
    "U+1E80", "U+1E81", "U+1E82", "U+1E83", "U+1E84", "U+1E85", "U+1E86", "U+1E87", "U+1E88",
    "U+1E89", "U+1E8A", "U+1E8B", "U+1E8C", "U+1E8D", "U+1E8E", "U+1E8F", "U+1E90", "U+1E91",
    "U+1E92", "U+1E93", "U+1E94", "U+1E95", "U+1E96", "U+1E97", "U+1E98", "U+1E99", "U+1E9A",
    "U+1E9B", "U+1E9C", "U+1E9D", "U+1E9E", "U+1E9F", "U+1EA0", "U+1EA1", "U+1EA2", "U+1EA3",
    "U+1EA4", "U+1EA5", "U+1EA6", "U+1EA7", "U+1EA8", "U+1EA9", "U+1EAA", "U+1EAB", "U+1EAC",
    "U+1EAD", "U+1EAE", "U+1EAF", "U+1EB0", "U+1EB1", "U+1EB2", "U+1EB3", "U+1EB4", "U+1EB5",
    "U+1EB6", "U+1EB7", "U+1EB8", "U+1EB9", "U+1EBA", "U+1EBB", "U+1EBC", "U+1EBD", "U+1EBE",
    "U+1EBF", "U+1EC0", "U+1EC1", "U+1EC2", "U+1EC3", "U+1EC4", "U+1EC5", "U+1EC6", "U+1EC7",
    "U+1EC8", "U+1EC9", "U+1ECA", "U+1ECB", "U+1ECC", "U+1ECD", "U+1ECE", "U+1ECF", "U+1ED0",
    "U+1ED1", "U+1ED2", "U+1ED3", "U+1ED4", "U+1ED5", "U+1ED6", "U+1ED7", "U+1ED8", "U+1ED9",
    "U+1EDA", "U+1EDB", "U+1EDC", "U+1EDD", "U+1EDE", "U+1EDF", "U+1EE0", "U+1EE1", "U+1EE2",
    "U+1EE3", "U+1EE4", "U+1EE5", "U+1EE6", "U+1EE7", "U+1EE8", "U+1EE9", "U+1EEA", "U+1EEB",
    "U+1EEC", "U+1EED", "U+1EEE", "U+1EEF", "U+1EF0", "U+1EF1", "U+1EF2", "U+1EF3", "U+1EF4",
    "U+1EF5", "U+1EF6", "U+1EF7", "U+1EF8", "U+1EF9", "U+1EFA", "U+1EFB", "U+1EFC", "U+1EFD",
    "U+1EFE", "U+1EFF", "U+1F00", "U+1F01", "U+1F02", "U+1F03", "U+1F04", "U+1F05", "U+1F06",
    "U+1F07", "U+1F08", "U+1F09", "U+1F0A", "U+1F0B", "U+1F0C", "U+1F0D", "U+1F0E", "U+1F0F",
    "U+1F10", "U+1F11", "U+1F12", "U+1F13", "U+1F14", "U+1F15", "U+1F18", "U+1F19", "U+1F1A",
    "U+1F1B", "U+1F1C", "U+1F1D", "U+1F20", "U+1F21", "U+1F22", "U+1F23", "U+1F24", "U+1F25",
    "U+1F26", "U+1F27", "U+1F28", "U+1F29", "U+1F2A", "U+1F2B", "U+1F2C", "U+1F2D", "U+1F2E",
    "U+1F2F", "U+1F30", "U+1F31", "U+1F32", "U+1F33", "U+1F34", "U+1F35", "U+1F36", "U+1F37",
    "U+1F38", "U+1F39", "U+1F3A", "U+1F3B", "U+1F3C", "U+1F3D", "U+1F3E", "U+1F3F", "U+1F40",
    "U+1F41", "U+1F42", "U+1F43", "U+1F44", "U+1F45", "U+1F48", "U+1F49", "U+1F4A", "U+1F4B",
    "U+1F4C", "U+1F4D", "U+1F50", "U+1F51", "U+1F52", "U+1F53", "U+1F54", "U+1F55", "U+1F56",
    "U+1F57", "U+1F59", "U+1F5B", "U+1F5D", "U+1F5F", "U+1F60", "U+1F61", "U+1F62", "U+1F63",
    "U+1F64", "U+1F65", "U+1F66", "U+1F67", "U+1F68", "U+1F69", "U+1F6A", "U+1F6B", "U+1F6C",
    "U+1F6D", "U+1F6E", "U+1F6F", "U+1F70", "U+1F71", "U+1F72", "U+1F73", "U+1F74", "U+1F75",
    "U+1F76", "U+1F77", "U+1F78", "U+1F79", "U+1F7A", "U+1F7B", "U+1F7C", "U+1F7D", "U+1F80",
    "U+1F81", "U+1F82", "U+1F83", "U+1F84", "U+1F85", "U+1F86", "U+1F87", "U+1F88", "U+1F89",
    "U+1F8A", "U+1F8B", "U+1F8C", "U+1F8D", "U+1F8E", "U+1F8F", "U+1F90", "U+1F91", "U+1F92",
    "U+1F93", "U+1F94", "U+1F95", "U+1F96", "U+1F97", "U+1F98", "U+1F99", "U+1F9A", "U+1F9B",
    "U+1F9C", "U+1F9D", "U+1F9E", "U+1F9F", "U+1FA0", "U+1FA1", "U+1FA2", "U+1FA3", "U+1FA4",
    "U+1FA5", "U+1FA6", "U+1FA7", "U+1FA8", "U+1FA9", "U+1FAA", "U+1FAB", "U+1FAC", "U+1FAD",
    "U+1FAE", "U+1FAF", "U+1FB0", "U+1FB1", "U+1FB2", "U+1FB3", "U+1FB4", "U+1FB6", "U+1FB7",
    "U+1FB8", "U+1FB9", "U+1FBA", "U+1FBB", "U+1FBC", "U+1FBE", "U+1FC2", "U+1FC3", "U+1FC4",
    "U+1FC6", "U+1FC7", "U+1FC8", "U+1FC9", "U+1FCA", "U+1FCB", "U+1FCC", "U+1FD0", "U+1FD1",
    "U+1FD2", "U+1FD3", "U+1FD6", "U+1FD7", "U+1FD8", "U+1FD9", "U+1FDA", "U+1FDB", "U+1FE0",
    "U+1FE1", "U+1FE2", "U+1FE3", "U+1FE4", "U+1FE5", "U+1FE6", "U+1FE7", "U+1FE8", "U+1FE9",
    "U+1FEA", "U+1FEB", "U+1FEC", "U+1FF2", "U+1FF3", "U+1FF4", "U+1FF6", "U+1FF7", "U+1FF8",
    "U+1FF9", "U+1FFA", "U+1FFB", "U+1FFC", "U+2102", "U+2107", "U+210A", "U+210B", "U+210C",
    "U+210D", "U+210E", "U+210F", "U+2110", "U+2111", "U+2112", "U+2113", "U+2115", "U+2119",
    "U+211A", "U+211B", "U+211C", "U+211D", "U+2124", "U+2126", "U+2128", "U+212A", "U+212B",
    "U+212C", "U+212D", "U+212F", "U+2130", "U+2131", "U+2132", "U+2133", "U+2134", "U+2139",
    "U+213C", "U+213D", "U+213E", "U+213F", "U+2145", "U+2146", "U+2147", "U+2148", "U+2149",
    "U+214E", "U+2160", "U+2161", "U+2162", "U+2163", "U+2164", "U+2165", "U+2166", "U+2167",
    "U+2168", "U+2169", "U+216A", "U+216B", "U+216C", "U+216D", "U+216E", "U+216F", "U+2170",
    "U+2171", "U+2172", "U+2173", "U+2174", "U+2175", "U+2176", "U+2177", "U+2178", "U+2179",
    "U+217A", "U+217B", "U+217C", "U+217D", "U+217E", "U+217F", "U+2183", "U+2184", "U+24B6",
    "U+24B7", "U+24B8", "U+24B9", "U+24BA", "U+24BB", "U+24BC", "U+24BD", "U+24BE", "U+24BF",
    "U+24C0", "U+24C1", "U+24C2", "U+24C3", "U+24C4", "U+24C5", "U+24C6", "U+24C7", "U+24C8",
    "U+24C9", "U+24CA", "U+24CB", "U+24CC", "U+24CD", "U+24CE", "U+24CF", "U+24D0", "U+24D1",
    "U+24D2", "U+24D3", "U+24D4", "U+24D5", "U+24D6", "U+24D7", "U+24D8", "U+24D9", "U+24DA",
    "U+24DB", "U+24DC", "U+24DD", "U+24DE", "U+24DF", "U+24E0", "U+24E1", "U+24E2", "U+24E3",
    "U+24E4", "U+24E5", "U+24E6", "U+24E7", "U+24E8", "U+24E9", "U+2C00", "U+2C01", "U+2C02",
    "U+2C03", "U+2C04", "U+2C05", "U+2C06", "U+2C07", "U+2C08", "U+2C09", "U+2C0A", "U+2C0B",
    "U+2C0C", "U+2C0D", "U+2C0E", "U+2C0F", "U+2C10", "U+2C11", "U+2C12", "U+2C13", "U+2C14",
    "U+2C15", "U+2C16", "U+2C17", "U+2C18", "U+2C19", "U+2C1A", "U+2C1B", "U+2C1C", "U+2C1D",
    "U+2C1E", "U+2C1F", "U+2C20", "U+2C21", "U+2C22", "U+2C23", "U+2C24", "U+2C25", "U+2C26",
    "U+2C27", "U+2C28", "U+2C29", "U+2C2A", "U+2C2B", "U+2C2C", "U+2C2D", "U+2C2E", "U+2C2F",
    "U+2C30", "U+2C31", "U+2C32", "U+2C33", "U+2C34", "U+2C35", "U+2C36", "U+2C37", "U+2C38",
    "U+2C39", "U+2C3A", "U+2C3B", "U+2C3C", "U+2C3D", "U+2C3E", "U+2C3F", "U+2C40", "U+2C41",
    "U+2C42", "U+2C43", "U+2C44", "U+2C45", "U+2C46", "U+2C47", "U+2C48", "U+2C49", "U+2C4A",
    "U+2C4B", "U+2C4C", "U+2C4D", "U+2C4E", "U+2C4F", "U+2C50", "U+2C51", "U+2C52", "U+2C53",
    "U+2C54", "U+2C55", "U+2C56", "U+2C57", "U+2C58", "U+2C59", "U+2C5A", "U+2C5B", "U+2C5C",
    "U+2C5D", "U+2C5E", "U+2C5F", "U+2C60", "U+2C61", "U+2C62", "U+2C63", "U+2C64", "U+2C65",
    "U+2C66", "U+2C67", "U+2C68", "U+2C69", "U+2C6A", "U+2C6B", "U+2C6C", "U+2C6D", "U+2C6E",
    "U+2C6F", "U+2C70", "U+2C71", "U+2C72", "U+2C73", "U+2C74", "U+2C75", "U+2C76", "U+2C77",
    "U+2C78", "U+2C79", "U+2C7A", "U+2C7B", "U+2C7E", "U+2C7F", "U+2C80", "U+2C81", "U+2C82",
    "U+2C83", "U+2C84", "U+2C85", "U+2C86", "U+2C87", "U+2C88", "U+2C89", "U+2C8A", "U+2C8B",
    "U+2C8C", "U+2C8D", "U+2C8E", "U+2C8F", "U+2C90", "U+2C91", "U+2C92", "U+2C93", "U+2C94",
    "U+2C95", "U+2C96", "U+2C97", "U+2C98", "U+2C99", "U+2C9A", "U+2C9B", "U+2C9C", "U+2C9D",
    "U+2C9E", "U+2C9F", "U+2CA0", "U+2CA1", "U+2CA2", "U+2CA3", "U+2CA4", "U+2CA5", "U+2CA6",
    "U+2CA7", "U+2CA8", "U+2CA9", "U+2CAA", "U+2CAB", "U+2CAC", "U+2CAD", "U+2CAE", "U+2CAF",
    "U+2CB0", "U+2CB1", "U+2CB2", "U+2CB3", "U+2CB4", "U+2CB5", "U+2CB6", "U+2CB7", "U+2CB8",
    "U+2CB9", "U+2CBA", "U+2CBB", "U+2CBC", "U+2CBD", "U+2CBE", "U+2CBF", "U+2CC0", "U+2CC1",
    "U+2CC2", "U+2CC3", "U+2CC4", "U+2CC5", "U+2CC6", "U+2CC7", "U+2CC8", "U+2CC9", "U+2CCA",
    "U+2CCB", "U+2CCC", "U+2CCD", "U+2CCE", "U+2CCF", "U+2CD0", "U+2CD1", "U+2CD2", "U+2CD3",
    "U+2CD4", "U+2CD5", "U+2CD6", "U+2CD7", "U+2CD8", "U+2CD9", "U+2CDA", "U+2CDB", "U+2CDC",
    "U+2CDD", "U+2CDE", "U+2CDF", "U+2CE0", "U+2CE1", "U+2CE2", "U+2CE3", "U+2CE4", "U+2CEB",
    "U+2CEC", "U+2CED", "U+2CEE", "U+2CF2", "U+2CF3", "U+2D00", "U+2D01", "U+2D02", "U+2D03",
    "U+2D04", "U+2D05", "U+2D06", "U+2D07", "U+2D08", "U+2D09", "U+2D0A", "U+2D0B", "U+2D0C",
    "U+2D0D", "U+2D0E", "U+2D0F", "U+2D10", "U+2D11", "U+2D12", "U+2D13", "U+2D14", "U+2D15",
    "U+2D16", "U+2D17", "U+2D18", "U+2D19", "U+2D1A", "U+2D1B", "U+2D1C", "U+2D1D", "U+2D1E",
    "U+2D1F", "U+2D20", "U+2D21", "U+2D22", "U+2D23", "U+2D24", "U+2D25", "U+2D27", "U+2D2D",
    "U+A640", "U+A641", "U+A642", "U+A643", "U+A644", "U+A645", "U+A646", "U+A647", "U+A648",
    "U+A649", "U+A64A", "U+A64B", "U+A64C", "U+A64D", "U+A64E", "U+A64F", "U+A650", "U+A651",
    "U+A652", "U+A653", "U+A654", "U+A655", "U+A656", "U+A657", "U+A658", "U+A659", "U+A65A",
    "U+A65B", "U+A65C", "U+A65D", "U+A65E", "U+A65F", "U+A660", "U+A661", "U+A662", "U+A663",
    "U+A664", "U+A665", "U+A666", "U+A667", "U+A668", "U+A669", "U+A66A", "U+A66B", "U+A66C",
    "U+A66D", "U+A680", "U+A681", "U+A682", "U+A683", "U+A684", "U+A685", "U+A686", "U+A687",
    "U+A688", "U+A689", "U+A68A", "U+A68B", "U+A68C", "U+A68D", "U+A68E", "U+A68F", "U+A690",
    "U+A691", "U+A692", "U+A693", "U+A694", "U+A695", "U+A696", "U+A697", "U+A698", "U+A699",
    "U+A69A", "U+A69B", "U+A722", "U+A723", "U+A724", "U+A725", "U+A726", "U+A727", "U+A728",
    "U+A729", "U+A72A", "U+A72B", "U+A72C", "U+A72D", "U+A72E", "U+A72F", "U+A730", "U+A731",
    "U+A732", "U+A733", "U+A734", "U+A735", "U+A736", "U+A737", "U+A738", "U+A739", "U+A73A",
    "U+A73B", "U+A73C", "U+A73D", "U+A73E", "U+A73F", "U+A740", "U+A741", "U+A742", "U+A743",
    "U+A744", "U+A745", "U+A746", "U+A747", "U+A748", "U+A749", "U+A74A", "U+A74B", "U+A74C",
    "U+A74D", "U+A74E", "U+A74F", "U+A750", "U+A751", "U+A752", "U+A753", "U+A754", "U+A755",
    "U+A756", "U+A757", "U+A758", "U+A759", "U+A75A", "U+A75B", "U+A75C", "U+A75D", "U+A75E",
    "U+A75F", "U+A760", "U+A761", "U+A762", "U+A763", "U+A764", "U+A765", "U+A766", "U+A767",
    "U+A768", "U+A769", "U+A76A", "U+A76B", "U+A76C", "U+A76D", "U+A76E", "U+A76F", "U+A771",
    "U+A772", "U+A773", "U+A774", "U+A775", "U+A776", "U+A777", "U+A778", "U+A779", "U+A77A",
    "U+A77B", "U+A77C", "U+A77D", "U+A77E", "U+A77F", "U+A780", "U+A781", "U+A782", "U+A783",
    "U+A784", "U+A785", "U+A786", "U+A787", "U+A78B", "U+A78C", "U+A78D", "U+A78E", "U+A790",
    "U+A791", "U+A792", "U+A793", "U+A794", "U+A795", "U+A796", "U+A797", "U+A798", "U+A799",
    "U+A79A", "U+A79B", "U+A79C", "U+A79D", "U+A79E", "U+A79F", "U+A7A0", "U+A7A1", "U+A7A2",
    "U+A7A3", "U+A7A4", "U+A7A5", "U+A7A6", "U+A7A7", "U+A7A8", "U+A7A9", "U+A7AA", "U+A7AB",
    "U+A7AC", "U+A7AD", "U+A7AE", "U+A7AF", "U+A7B0", "U+A7B1", "U+A7B2", "U+A7B3", "U+A7B4",
    "U+A7B5", "U+A7B6", "U+A7B7", "U+A7B8", "U+A7B9", "U+A7BA", "U+A7BB", "U+A7BC", "U+A7BD",
    "U+A7BE", "U+A7BF", "U+A7C0", "U+A7C1", "U+A7C2", "U+A7C3", "U+A7C4", "U+A7C5", "U+A7C6",
    "U+A7C7", "U+A7C8", "U+A7C9", "U+A7CA", "U+A7CB", "U+A7CC", "U+A7CD", "U+A7CE", "U+A7CF",
    "U+A7D0", "U+A7D1", "U+A7D2", "U+A7D3", "U+A7D4", "U+A7D5", "U+A7D6", "U+A7D7", "U+A7D8",
    "U+A7D9", "U+A7DA", "U+A7DB", "U+A7DC", "U+A7F5", "U+A7F6", "U+A7FA", "U+AB30", "U+AB31",
    "U+AB32", "U+AB33", "U+AB34", "U+AB35", "U+AB36", "U+AB37", "U+AB38", "U+AB39", "U+AB3A",
    "U+AB3B", "U+AB3C", "U+AB3D", "U+AB3E", "U+AB3F", "U+AB40", "U+AB41", "U+AB42", "U+AB43",
    "U+AB44", "U+AB45", "U+AB46", "U+AB47", "U+AB48", "U+AB49", "U+AB4A", "U+AB4B", "U+AB4C",
    "U+AB4D", "U+AB4E", "U+AB4F", "U+AB50", "U+AB51", "U+AB52", "U+AB53", "U+AB54", "U+AB55",
    "U+AB56", "U+AB57", "U+AB58", "U+AB59", "U+AB5A", "U+AB60", "U+AB61", "U+AB62", "U+AB63",
    "U+AB64", "U+AB65", "U+AB66", "U+AB67", "U+AB68", "U+AB70", "U+AB71", "U+AB72", "U+AB73",
    "U+AB74", "U+AB75", "U+AB76", "U+AB77", "U+AB78", "U+AB79", "U+AB7A", "U+AB7B", "U+AB7C",
    "U+AB7D", "U+AB7E", "U+AB7F", "U+AB80", "U+AB81", "U+AB82", "U+AB83", "U+AB84", "U+AB85",
    "U+AB86", "U+AB87", "U+AB88", "U+AB89", "U+AB8A", "U+AB8B", "U+AB8C", "U+AB8D", "U+AB8E",
    "U+AB8F", "U+AB90", "U+AB91", "U+AB92", "U+AB93", "U+AB94", "U+AB95", "U+AB96", "U+AB97",
    "U+AB98", "U+AB99", "U+AB9A", "U+AB9B", "U+AB9C", "U+AB9D", "U+AB9E", "U+AB9F", "U+ABA0",
    "U+ABA1", "U+ABA2", "U+ABA3", "U+ABA4", "U+ABA5", "U+ABA6", "U+ABA7", "U+ABA8", "U+ABA9",
    "U+ABAA", "U+ABAB", "U+ABAC", "U+ABAD", "U+ABAE", "U+ABAF", "U+ABB0", "U+ABB1", "U+ABB2",
    "U+ABB3", "U+ABB4", "U+ABB5", "U+ABB6", "U+ABB7", "U+ABB8", "U+ABB9", "U+ABBA", "U+ABBB",
    "U+ABBC", "U+ABBD", "U+ABBE", "U+ABBF", "U+FB00", "U+FB01", "U+FB02", "U+FB03", "U+FB04",
    "U+FB05", "U+FB06", "U+FB13", "U+FB14", "U+FB15", "U+FB16", "U+FB17", "U+FF21", "U+FF22",
    "U+FF23", "U+FF24", "U+FF25", "U+FF26", "U+FF27", "U+FF28", "U+FF29", "U+FF2A", "U+FF2B",
    "U+FF2C", "U+FF2D", "U+FF2E", "U+FF2F", "U+FF30", "U+FF31", "U+FF32", "U+FF33", "U+FF34",
    "U+FF35", "U+FF36", "U+FF37", "U+FF38", "U+FF39", "U+FF3A", "U+FF41", "U+FF42", "U+FF43",
    "U+FF44", "U+FF45", "U+FF46", "U+FF47", "U+FF48", "U+FF49", "U+FF4A", "U+FF4B", "U+FF4C",
    "U+FF4D", "U+FF4E", "U+FF4F", "U+FF50", "U+FF51", "U+FF52", "U+FF53", "U+FF54", "U+FF55",
    "U+FF56", "U+FF57", "U+FF58", "U+FF59", "U+FF5A" }

\* the surrogate pairs of the code points with the property Cased that are
\* not Case_Ignorable
CasedPairs ==
  { <<"U+D801", "U+DC00">>, <<"U+D801", "U+DC01">>, <<"U+D801", "U+DC02">>,
    <<"U+D801", "U+DC03">>, <<"U+D801", "U+DC04">>, <<"U+D801", "U+DC05">>,
    <<"U+D801", "U+DC06">>, <<"U+D801", "U+DC07">>, <<"U+D801", "U+DC08">>,
    <<"U+D801", "U+DC09">>, <<"U+D801", "U+DC0A">>, <<"U+D801", "U+DC0B">>,
    <<"U+D801", "U+DC0C">>, <<"U+D801", "U+DC0D">>, <<"U+D801", "U+DC0E">>,
    <<"U+D801", "U+DC0F">>, <<"U+D801", "U+DC10">>, <<"U+D801", "U+DC11">>,
    <<"U+D801", "U+DC12">>, <<"U+D801", "U+DC13">>, <<"U+D801", "U+DC14">>,
    <<"U+D801", "U+DC15">>, <<"U+D801", "U+DC16">>, <<"U+D801", "U+DC17">>,
    <<"U+D801", "U+DC18">>, <<"U+D801", "U+DC19">>, <<"U+D801", "U+DC1A">>,
    <<"U+D801", "U+DC1B">>, <<"U+D801", "U+DC1C">>, <<"U+D801", "U+DC1D">>,
    <<"U+D801", "U+DC1E">>, <<"U+D801", "U+DC1F">>, <<"U+D801", "U+DC20">>,
    <<"U+D801", "U+DC21">>, <<"U+D801", "U+DC22">>, <<"U+D801", "U+DC23">>,
    <<"U+D801", "U+DC24">>, <<"U+D801", "U+DC25">>, <<"U+D801", "U+DC26">>,
    <<"U+D801", "U+DC27">>, <<"U+D801", "U+DC28">>, <<"U+D801", "U+DC29">>,
    <<"U+D801", "U+DC2A">>, <<"U+D801", "U+DC2B">>, <<"U+D801", "U+DC2C">>,
    <<"U+D801", "U+DC2D">>, <<"U+D801", "U+DC2E">>, <<"U+D801", "U+DC2F">>,
    <<"U+D801", "U+DC30">>, <<"U+D801", "U+DC31">>, <<"U+D801", "U+DC32">>,
    <<"U+D801", "U+DC33">>, <<"U+D801", "U+DC34">>, <<"U+D801", "U+DC35">>,
    <<"U+D801", "U+DC36">>, <<"U+D801", "U+DC37">>, <<"U+D801", "U+DC38">>,
    <<"U+D801", "U+DC39">>, <<"U+D801", "U+DC3A">>, <<"U+D801", "U+DC3B">>,
    <<"U+D801", "U+DC3C">>, <<"U+D801", "U+DC3D">>, <<"U+D801", "U+DC3E">>,
    <<"U+D801", "U+DC3F">>, <<"U+D801", "U+DC40">>, <<"U+D801", "U+DC41">>,
    <<"U+D801", "U+DC42">>, <<"U+D801", "U+DC43">>, <<"U+D801", "U+DC44">>,
    <<"U+D801", "U+DC45">>, <<"U+D801", "U+DC46">>, <<"U+D801", "U+DC47">>,
    <<"U+D801", "U+DC48">>, <<"U+D801", "U+DC49">>, <<"U+D801", "U+DC4A">>,
    <<"U+D801", "U+DC4B">>, <<"U+D801", "U+DC4C">>, <<"U+D801", "U+DC4D">>,
    <<"U+D801", "U+DC4E">>, <<"U+D801", "U+DC4F">>, <<"U+D801", "U+DCB0">>,
    <<"U+D801", "U+DCB1">>, <<"U+D801", "U+DCB2">>, <<"U+D801", "U+DCB3">>,
    <<"U+D801", "U+DCB4">>, <<"U+D801", "U+DCB5">>, <<"U+D801", "U+DCB6">>,
    <<"U+D801", "U+DCB7">>, <<"U+D801", "U+DCB8">>, <<"U+D801", "U+DCB9">>,
    <<"U+D801", "U+DCBA">>, <<"U+D801", "U+DCBB">>, <<"U+D801", "U+DCBC">>,
    <<"U+D801", "U+DCBD">>, <<"U+D801", "U+DCBE">>, <<"U+D801", "U+DCBF">>,
    <<"U+D801", "U+DCC0">>, <<"U+D801", "U+DCC1">>, <<"U+D801", "U+DCC2">>,
    <<"U+D801", "U+DCC3">>, <<"U+D801", "U+DCC4">>, <<"U+D801", "U+DCC5">>,
    <<"U+D801", "U+DCC6">>, <<"U+D801", "U+DCC7">>, <<"U+D801", "U+DCC8">>,
    <<"U+D801", "U+DCC9">>, <<"U+D801", "U+DCCA">>, <<"U+D801", "U+DCCB">>,
    <<"U+D801", "U+DCCC">>, <<"U+D801", "U+DCCD">>, <<"U+D801", "U+DCCE">>,
    <<"U+D801", "U+DCCF">>, <<"U+D801", "U+DCD0">>, <<"U+D801", "U+DCD1">>,
    <<"U+D801", "U+DCD2">>, <<"U+D801", "U+DCD3">>, <<"U+D801", "U+DCD8">>,
    <<"U+D801", "U+DCD9">>, <<"U+D801", "U+DCDA">>, <<"U+D801", "U+DCDB">>,
    <<"U+D801", "U+DCDC">>, <<"U+D801", "U+DCDD">>, <<"U+D801", "U+DCDE">>,
    <<"U+D801", "U+DCDF">>, <<"U+D801", "U+DCE0">>, <<"U+D801", "U+DCE1">>,
    <<"U+D801", "U+DCE2">>, <<"U+D801", "U+DCE3">>, <<"U+D801", "U+DCE4">>,
    <<"U+D801", "U+DCE5">>, <<"U+D801", "U+DCE6">>, <<"U+D801", "U+DCE7">>,
    <<"U+D801", "U+DCE8">>, <<"U+D801", "U+DCE9">>, <<"U+D801", "U+DCEA">>,
    <<"U+D801", "U+DCEB">>, <<"U+D801", "U+DCEC">>, <<"U+D801", "U+DCED">>,
    <<"U+D801", "U+DCEE">>, <<"U+D801", "U+DCEF">>, <<"U+D801", "U+DCF0">>,
    <<"U+D801", "U+DCF1">>, <<"U+D801", "U+DCF2">>, <<"U+D801", "U+DCF3">>,
    <<"U+D801", "U+DCF4">>, <<"U+D801", "U+DCF5">>, <<"U+D801", "U+DCF6">>,
    <<"U+D801", "U+DCF7">>, <<"U+D801", "U+DCF8">>, <<"U+D801", "U+DCF9">>,
    <<"U+D801", "U+DCFA">>, <<"U+D801", "U+DCFB">>, <<"U+D801", "U+DD70">>,
    <<"U+D801", "U+DD71">>, <<"U+D801", "U+DD72">>, <<"U+D801", "U+DD73">>,
    <<"U+D801", "U+DD74">>, <<"U+D801", "U+DD75">>, <<"U+D801", "U+DD76">>,
    <<"U+D801", "U+DD77">>, <<"U+D801", "U+DD78">>, <<"U+D801", "U+DD79">>,
    <<"U+D801", "U+DD7A">>, <<"U+D801", "U+DD7C">>, <<"U+D801", "U+DD7D">>,
    <<"U+D801", "U+DD7E">>, <<"U+D801", "U+DD7F">>, <<"U+D801", "U+DD80">>,
    <<"U+D801", "U+DD81">>, <<"U+D801", "U+DD82">>, <<"U+D801", "U+DD83">>,
    <<"U+D801", "U+DD84">>, <<"U+D801", "U+DD85">>, <<"U+D801", "U+DD86">>,
    <<"U+D801", "U+DD87">>, <<"U+D801", "U+DD88">>, <<"U+D801", "U+DD89">>,
    <<"U+D801", "U+DD8A">>, <<"U+D801", "U+DD8C">>, <<"U+D801", "U+DD8D">>,
    <<"U+D801", "U+DD8E">>, <<"U+D801", "U+DD8F">>, <<"U+D801", "U+DD90">>,
    <<"U+D801", "U+DD91">>, <<"U+D801", "U+DD92">>, <<"U+D801", "U+DD94">>,
    <<"U+D801", "U+DD95">>, <<"U+D801", "U+DD97">>, <<"U+D801", "U+DD98">>,
    <<"U+D801", "U+DD99">>, <<"U+D801", "U+DD9A">>, <<"U+D801", "U+DD9B">>,
    <<"U+D801", "U+DD9C">>, <<"U+D801", "U+DD9D">>, <<"U+D801", "U+DD9E">>,
    <<"U+D801", "U+DD9F">>, <<"U+D801", "U+DDA0">>, <<"U+D801", "U+DDA1">>,
    <<"U+D801", "U+DDA3">>, <<"U+D801", "U+DDA4">>, <<"U+D801", "U+DDA5">>,
    <<"U+D801", "U+DDA6">>, <<"U+D801", "U+DDA7">>, <<"U+D801", "U+DDA8">>,
    <<"U+D801", "U+DDA9">>, <<"U+D801", "U+DDAA">>, <<"U+D801", "U+DDAB">>,
    <<"U+D801", "U+DDAC">>, <<"U+D801", "U+DDAD">>, <<"U+D801", "U+DDAE">>,
    <<"U+D801", "U+DDAF">>, <<"U+D801", "U+DDB0">>, <<"U+D801", "U+DDB1">>,
    <<"U+D801", "U+DDB3">>, <<"U+D801", "U+DDB4">>, <<"U+D801", "U+DDB5">>,
    <<"U+D801", "U+DDB6">>, <<"U+D801", "U+DDB7">>, <<"U+D801", "U+DDB8">>,
    <<"U+D801", "U+DDB9">>, <<"U+D801", "U+DDBB">>, <<"U+D801", "U+DDBC">>,
    <<"U+D803", "U+DC80">>, <<"U+D803", "U+DC81">>, <<"U+D803", "U+DC82">>,
    <<"U+D803", "U+DC83">>, <<"U+D803", "U+DC84">>, <<"U+D803", "U+DC85">>,
    <<"U+D803", "U+DC86">>, <<"U+D803", "U+DC87">>, <<"U+D803", "U+DC88">>,
    <<"U+D803", "U+DC89">>, <<"U+D803", "U+DC8A">>, <<"U+D803", "U+DC8B">>,
    <<"U+D803", "U+DC8C">>, <<"U+D803", "U+DC8D">>, <<"U+D803", "U+DC8E">>,
    <<"U+D803", "U+DC8F">>, <<"U+D803", "U+DC90">>, <<"U+D803", "U+DC91">>,
    <<"U+D803", "U+DC92">>, <<"U+D803", "U+DC93">>, <<"U+D803", "U+DC94">>,
    <<"U+D803", "U+DC95">>, <<"U+D803", "U+DC96">>, <<"U+D803", "U+DC97">>,
    <<"U+D803", "U+DC98">>, <<"U+D803", "U+DC99">>, <<"U+D803", "U+DC9A">>,
    <<"U+D803", "U+DC9B">>, <<"U+D803", "U+DC9C">>, <<"U+D803", "U+DC9D">>,
    <<"U+D803", "U+DC9E">>, <<"U+D803", "U+DC9F">>, <<"U+D803", "U+DCA0">>,
    <<"U+D803", "U+DCA1">>, <<"U+D803", "U+DCA2">>, <<"U+D803", "U+DCA3">>,
    <<"U+D803", "U+DCA4">>, <<"U+D803", "U+DCA5">>, <<"U+D803", "U+DCA6">>,
    <<"U+D803", "U+DCA7">>, <<"U+D803", "U+DCA8">>, <<"U+D803", "U+DCA9">>,
    <<"U+D803", "U+DCAA">>, <<"U+D803", "U+DCAB">>, <<"U+D803", "U+DCAC">>,
    <<"U+D803", "U+DCAD">>, <<"U+D803", "U+DCAE">>, <<"U+D803", "U+DCAF">>,
    <<"U+D803", "U+DCB0">>, <<"U+D803", "U+DCB1">>, <<"U+D803", "U+DCB2">>,
    <<"U+D803", "U+DCC0">>, <<"U+D803", "U+DCC1">>, <<"U+D803", "U+DCC2">>,
    <<"U+D803", "U+DCC3">>, <<"U+D803", "U+DCC4">>, <<"U+D803", "U+DCC5">>,
    <<"U+D803", "U+DCC6">>, <<"U+D803", "U+DCC7">>, <<"U+D803", "U+DCC8">>,
    <<"U+D803", "U+DCC9">>, <<"U+D803", "U+DCCA">>, <<"U+D803", "U+DCCB">>,
    <<"U+D803", "U+DCCC">>, <<"U+D803", "U+DCCD">>, <<"U+D803", "U+DCCE">>,
    <<"U+D803", "U+DCCF">>, <<"U+D803", "U+DCD0">>, <<"U+D803", "U+DCD1">>,
    <<"U+D803", "U+DCD2">>, <<"U+D803", "U+DCD3">>, <<"U+D803", "U+DCD4">>,
    <<"U+D803", "U+DCD5">>, <<"U+D803", "U+DCD6">>, <<"U+D803", "U+DCD7">>,
    <<"U+D803", "U+DCD8">>, <<"U+D803", "U+DCD9">>, <<"U+D803", "U+DCDA">>,
    <<"U+D803", "U+DCDB">>, <<"U+D803", "U+DCDC">>, <<"U+D803", "U+DCDD">>,
    <<"U+D803", "U+DCDE">>, <<"U+D803", "U+DCDF">>, <<"U+D803", "U+DCE0">>,
    <<"U+D803", "U+DCE1">>, <<"U+D803", "U+DCE2">>, <<"U+D803", "U+DCE3">>,
    <<"U+D803", "U+DCE4">>, <<"U+D803", "U+DCE5">>, <<"U+D803", "U+DCE6">>,
    <<"U+D803", "U+DCE7">>, <<"U+D803", "U+DCE8">>, <<"U+D803", "U+DCE9">>,
    <<"U+D803", "U+DCEA">>, <<"U+D803", "U+DCEB">>, <<"U+D803", "U+DCEC">>,
    <<"U+D803", "U+DCED">>, <<"U+D803", "U+DCEE">>, <<"U+D803", "U+DCEF">>,
    <<"U+D803", "U+DCF0">>, <<"U+D803", "U+DCF1">>, <<"U+D803", "U+DCF2">>,
    <<"U+D803", "U+DD50">>, <<"U+D803", "U+DD51">>, <<"U+D803", "U+DD52">>,
    <<"U+D803", "U+DD53">>, <<"U+D803", "U+DD54">>, <<"U+D803", "U+DD55">>,
    <<"U+D803", "U+DD56">>, <<"U+D803", "U+DD57">>, <<"U+D803", "U+DD58">>,
    <<"U+D803", "U+DD59">>, <<"U+D803", "U+DD5A">>, <<"U+D803", "U+DD5B">>,
    <<"U+D803", "U+DD5C">>, <<"U+D803", "U+DD5D">>, <<"U+D803", "U+DD5E">>,
    <<"U+D803", "U+DD5F">>, <<"U+D803", "U+DD60">>, <<"U+D803", "U+DD61">>,
    <<"U+D803", "U+DD62">>, <<"U+D803", "U+DD63">>, <<"U+D803", "U+DD64">>,
    <<"U+D803", "U+DD65">>, <<"U+D803", "U+DD70">>, <<"U+D803", "U+DD71">>,
    <<"U+D803", "U+DD72">>, <<"U+D803", "U+DD73">>, <<"U+D803", "U+DD74">>,
    <<"U+D803", "U+DD75">>, <<"U+D803", "U+DD76">>, <<"U+D803", "U+DD77">>,
    <<"U+D803", "U+DD78">>, <<"U+D803", "U+DD79">>, <<"U+D803", "U+DD7A">>,
    <<"U+D803", "U+DD7B">>, <<"U+D803", "U+DD7C">>, <<"U+D803", "U+DD7D">>,
    <<"U+D803", "U+DD7E">>, <<"U+D803", "U+DD7F">>, <<"U+D803", "U+DD80">>,
    <<"U+D803", "U+DD81">>, <<"U+D803", "U+DD82">>, <<"U+D803", "U+DD83">>,
    <<"U+D803", "U+DD84">>, <<"U+D803", "U+DD85">>, <<"U+D806", "U+DCA0">>,
    <<"U+D806", "U+DCA1">>, <<"U+D806", "U+DCA2">>, <<"U+D806", "U+DCA3">>,
    <<"U+D806", "U+DCA4">>, <<"U+D806", "U+DCA5">>, <<"U+D806", "U+DCA6">>,
    <<"U+D806", "U+DCA7">>, <<"U+D806", "U+DCA8">>, <<"U+D806", "U+DCA9">>,
    <<"U+D806", "U+DCAA">>, <<"U+D806", "U+DCAB">>, <<"U+D806", "U+DCAC">>,
    <<"U+D806", "U+DCAD">>, <<"U+D806", "U+DCAE">>, <<"U+D806", "U+DCAF">>,
    <<"U+D806", "U+DCB0">>, <<"U+D806", "U+DCB1">>, <<"U+D806", "U+DCB2">>,
    <<"U+D806", "U+DCB3">>, <<"U+D806", "U+DCB4">>, <<"U+D806", "U+DCB5">>,
    <<"U+D806", "U+DCB6">>, <<"U+D806", "U+DCB7">>, <<"U+D806", "U+DCB8">>,
    <<"U+D806", "U+DCB9">>, <<"U+D806", "U+DCBA">>, <<"U+D806", "U+DCBB">>,
    <<"U+D806", "U+DCBC">>, <<"U+D806", "U+DCBD">>, <<"U+D806", "U+DCBE">>,
    <<"U+D806", "U+DCBF">>, <<"U+D806", "U+DCC0">>, <<"U+D806", "U+DCC1">>,
    <<"U+D806", "U+DCC2">>, <<"U+D806", "U+DCC3">>, <<"U+D806", "U+DCC4">>,
    <<"U+D806", "U+DCC5">>, <<"U+D806", "U+DCC6">>, <<"U+D806", "U+DCC7">>,
    <<"U+D806", "U+DCC8">>, <<"U+D806", "U+DCC9">>, <<"U+D806", "U+DCCA">>,
    <<"U+D806", "U+DCCB">>, <<"U+D806", "U+DCCC">>, <<"U+D806", "U+DCCD">>,
    <<"U+D806", "U+DCCE">>, <<"U+D806", "U+DCCF">>, <<"U+D806", "U+DCD0">>,
    <<"U+D806", "U+DCD1">>, <<"U+D806", "U+DCD2">>, <<"U+D806", "U+DCD3">>,
    <<"U+D806", "U+DCD4">>, <<"U+D806", "U+DCD5">>, <<"U+D806", "U+DCD6">>,
    <<"U+D806", "U+DCD7">>, <<"U+D806", "U+DCD8">>, <<"U+D806", "U+DCD9">>,
    <<"U+D806", "U+DCDA">>, <<"U+D806", "U+DCDB">>, <<"U+D806", "U+DCDC">>,
    <<"U+D806", "U+DCDD">>, <<"U+D806", "U+DCDE">>, <<"U+D806", "U+DCDF">>,
    <<"U+D81B", "U+DE40">>, <<"U+D81B", "U+DE41">>, <<"U+D81B", "U+DE42">>,
    <<"U+D81B", "U+DE43">>, <<"U+D81B", "U+DE44">>, <<"U+D81B", "U+DE45">>,
    <<"U+D81B", "U+DE46">>, <<"U+D81B", "U+DE47">>, <<"U+D81B", "U+DE48">>,
    <<"U+D81B", "U+DE49">>, <<"U+D81B", "U+DE4A">>, <<"U+D81B", "U+DE4B">>,
    <<"U+D81B", "U+DE4C">>, <<"U+D81B", "U+DE4D">>, <<"U+D81B", "U+DE4E">>,
    <<"U+D81B", "U+DE4F">>, <<"U+D81B", "U+DE50">>, <<"U+D81B", "U+DE51">>,
    <<"U+D81B", "U+DE52">>, <<"U+D81B", "U+DE53">>, <<"U+D81B", "U+DE54">>,
    <<"U+D81B", "U+DE55">>, <<"U+D81B", "U+DE56">>, <<"U+D81B", "U+DE57">>,
    <<"U+D81B", "U+DE58">>, <<"U+D81B", "U+DE59">>, <<"U+D81B", "U+DE5A">>,
    <<"U+D81B", "U+DE5B">>, <<"U+D81B", "U+DE5C">>, <<"U+D81B", "U+DE5D">>,
    <<"U+D81B", "U+DE5E">>, <<"U+D81B", "U+DE5F">>, <<"U+D81B", "U+DE60">>,
    <<"U+D81B", "U+DE61">>, <<"U+D81B", "U+DE62">>, <<"U+D81B", "U+DE63">>,
    <<"U+D81B", "U+DE64">>, <<"U+D81B", "U+DE65">>, <<"U+D81B", "U+DE66">>,
    <<"U+D81B", "U+DE67">>, <<"U+D81B", "U+DE68">>, <<"U+D81B", "U+DE69">>,
    <<"U+D81B", "U+DE6A">>, <<"U+D81B", "U+DE6B">>, <<"U+D81B", "U+DE6C">>,
    <<"U+D81B", "U+DE6D">>, <<"U+D81B", "U+DE6E">>, <<"U+D81B", "U+DE6F">>,
    <<"U+D81B", "U+DE70">>, <<"U+D81B", "U+DE71">>, <<"U+D81B", "U+DE72">>,
    <<"U+D81B", "U+DE73">>, <<"U+D81B", "U+DE74">>, <<"U+D81B", "U+DE75">>,
    <<"U+D81B", "U+DE76">>, <<"U+D81B", "U+DE77">>, <<"U+D81B", "U+DE78">>,
    <<"U+D81B", "U+DE79">>, <<"U+D81B", "U+DE7A">>, <<"U+D81B", "U+DE7B">>,
    <<"U+D81B", "U+DE7C">>, <<"U+D81B", "U+DE7D">>, <<"U+D81B", "U+DE7E">>,
    <<"U+D81B", "U+DE7F">>, <<"U+D81B", "U+DEA0">>, <<"U+D81B", "U+DEA1">>,
    <<"U+D81B", "U+DEA2">>, <<"U+D81B", "U+DEA3">>, <<"U+D81B", "U+DEA4">>,
    <<"U+D81B", "U+DEA5">>, <<"U+D81B", "U+DEA6">>, <<"U+D81B", "U+DEA7">>,
    <<"U+D81B", "U+DEA8">>, <<"U+D81B", "U+DEA9">>, <<"U+D81B", "U+DEAA">>,
    <<"U+D81B", "U+DEAB">>, <<"U+D81B", "U+DEAC">>, <<"U+D81B", "U+DEAD">>,
    <<"U+D81B", "U+DEAE">>, <<"U+D81B", "U+DEAF">>, <<"U+D81B", "U+DEB0">>,
    <<"U+D81B", "U+DEB1">>, <<"U+D81B", "U+DEB2">>, <<"U+D81B", "U+DEB3">>,
    <<"U+D81B", "U+DEB4">>, <<"U+D81B", "U+DEB5">>, <<"U+D81B", "U+DEB6">>,
    <<"U+D81B", "U+DEB7">>, <<"U+D81B", "U+DEB8">>, <<"U+D81B", "U+DEBB">>,
    <<"U+D81B", "U+DEBC">>, <<"U+D81B", "U+DEBD">>, <<"U+D81B", "U+DEBE">>,
    <<"U+D81B", "U+DEBF">>, <<"U+D81B", "U+DEC0">>, <<"U+D81B", "U+DEC1">>,
    <<"U+D81B", "U+DEC2">>, <<"U+D81B", "U+DEC3">>, <<"U+D81B", "U+DEC4">>,
    <<"U+D81B", "U+DEC5">>, <<"U+D81B", "U+DEC6">>, <<"U+D81B", "U+DEC7">>,
    <<"U+D81B", "U+DEC8">>, <<"U+D81B", "U+DEC9">>, <<"U+D81B", "U+DECA">>,
    <<"U+D81B", "U+DECB">>, <<"U+D81B", "U+DECC">>, <<"U+D81B", "U+DECD">>,
    <<"U+D81B", "U+DECE">>, <<"U+D81B", "U+DECF">>, <<"U+D81B", "U+DED0">>,
    <<"U+D81B", "U+DED1">>, <<"U+D81B", "U+DED2">>, <<"U+D81B", "U+DED3">>,
    <<"U+D835", "U+DC00">>, <<"U+D835", "U+DC01">>, <<"U+D835", "U+DC02">>,
    <<"U+D835", "U+DC03">>, <<"U+D835", "U+DC04">>, <<"U+D835", "U+DC05">>,
    <<"U+D835", "U+DC06">>, <<"U+D835", "U+DC07">>, <<"U+D835", "U+DC08">>,
    <<"U+D835", "U+DC09">>, <<"U+D835", "U+DC0A">>, <<"U+D835", "U+DC0B">>,
    <<"U+D835", "U+DC0C">>, <<"U+D835", "U+DC0D">>, <<"U+D835", "U+DC0E">>,
    <<"U+D835", "U+DC0F">>, <<"U+D835", "U+DC10">>, <<"U+D835", "U+DC11">>,
    <<"U+D835", "U+DC12">>, <<"U+D835", "U+DC13">>, <<"U+D835", "U+DC14">>,
    <<"U+D835", "U+DC15">>, <<"U+D835", "U+DC16">>, <<"U+D835", "U+DC17">>,
    <<"U+D835", "U+DC18">>, <<"U+D835", "U+DC19">>, <<"U+D835", "U+DC1A">>,
    <<"U+D835", "U+DC1B">>, <<"U+D835", "U+DC1C">>, <<"U+D835", "U+DC1D">>,
    <<"U+D835", "U+DC1E">>, <<"U+D835", "U+DC1F">>, <<"U+D835", "U+DC20">>,
    <<"U+D835", "U+DC21">>, <<"U+D835", "U+DC22">>, <<"U+D835", "U+DC23">>,
    <<"U+D835", "U+DC24">>, <<"U+D835", "U+DC25">>, <<"U+D835", "U+DC26">>,
    <<"U+D835", "U+DC27">>, <<"U+D835", "U+DC28">>, <<"U+D835", "U+DC29">>,
    <<"U+D835", "U+DC2A">>, <<"U+D835", "U+DC2B">>, <<"U+D835", "U+DC2C">>,
    <<"U+D835", "U+DC2D">>, <<"U+D835", "U+DC2E">>, <<"U+D835", "U+DC2F">>,
    <<"U+D835", "U+DC30">>, <<"U+D835", "U+DC31">>, <<"U+D835", "U+DC32">>,
    <<"U+D835", "U+DC33">>, <<"U+D835", "U+DC34">>, <<"U+D835", "U+DC35">>,
    <<"U+D835", "U+DC36">>, <<"U+D835", "U+DC37">>, <<"U+D835", "U+DC38">>,
    <<"U+D835", "U+DC39">>, <<"U+D835", "U+DC3A">>, <<"U+D835", "U+DC3B">>,
    <<"U+D835", "U+DC3C">>, <<"U+D835", "U+DC3D">>, <<"U+D835", "U+DC3E">>,
    <<"U+D835", "U+DC3F">>, <<"U+D835", "U+DC40">>, <<"U+D835", "U+DC41">>,
    <<"U+D835", "U+DC42">>, <<"U+D835", "U+DC43">>, <<"U+D835", "U+DC44">>,
    <<"U+D835", "U+DC45">>, <<"U+D835", "U+DC46">>, <<"U+D835", "U+DC47">>,
    <<"U+D835", "U+DC48">>, <<"U+D835", "U+DC49">>, <<"U+D835", "U+DC4A">>,
    <<"U+D835", "U+DC4B">>, <<"U+D835", "U+DC4C">>, <<"U+D835", "U+DC4D">>,
    <<"U+D835", "U+DC4E">>, <<"U+D835", "U+DC4F">>, <<"U+D835", "U+DC50">>,
    <<"U+D835", "U+DC51">>, <<"U+D835", "U+DC52">>, <<"U+D835", "U+DC53">>,
    <<"U+D835", "U+DC54">>, <<"U+D835", "U+DC56">>, <<"U+D835", "U+DC57">>,
    <<"U+D835", "U+DC58">>, <<"U+D835", "U+DC59">>, <<"U+D835", "U+DC5A">>,
    <<"U+D835", "U+DC5B">>, <<"U+D835", "U+DC5C">>, <<"U+D835", "U+DC5D">>,
    <<"U+D835", "U+DC5E">>, <<"U+D835", "U+DC5F">>, <<"U+D835", "U+DC60">>,
    <<"U+D835", "U+DC61">>, <<"U+D835", "U+DC62">>, <<"U+D835", "U+DC63">>,
    <<"U+D835", "U+DC64">>, <<"U+D835", "U+DC65">>, <<"U+D835", "U+DC66">>,
    <<"U+D835", "U+DC67">>, <<"U+D835", "U+DC68">>, <<"U+D835", "U+DC69">>,
    <<"U+D835", "U+DC6A">>, <<"U+D835", "U+DC6B">>, <<"U+D835", "U+DC6C">>,
    <<"U+D835", "U+DC6D">>, <<"U+D835", "U+DC6E">>, <<"U+D835", "U+DC6F">>,
    <<"U+D835", "U+DC70">>, <<"U+D835", "U+DC71">>, <<"U+D835", "U+DC72">>,
    <<"U+D835", "U+DC73">>, <<"U+D835", "U+DC74">>, <<"U+D835", "U+DC75">>,
    <<"U+D835", "U+DC76">>, <<"U+D835", "U+DC77">>, <<"U+D835", "U+DC78">>,
    <<"U+D835", "U+DC79">>, <<"U+D835", "U+DC7A">>, <<"U+D835", "U+DC7B">>,
    <<"U+D835", "U+DC7C">>, <<"U+D835", "U+DC7D">>, <<"U+D835", "U+DC7E">>,
    <<"U+D835", "U+DC7F">>, <<"U+D835", "U+DC80">>, <<"U+D835", "U+DC81">>,
    <<"U+D835", "U+DC82">>, <<"U+D835", "U+DC83">>, <<"U+D835", "U+DC84">>,
    <<"U+D835", "U+DC85">>, <<"U+D835", "U+DC86">>, <<"U+D835", "U+DC87">>,
    <<"U+D835", "U+DC88">>, <<"U+D835", "U+DC89">>, <<"U+D835", "U+DC8A">>,
    <<"U+D835", "U+DC8B">>, <<"U+D835", "U+DC8C">>, <<"U+D835", "U+DC8D">>,
    <<"U+D835", "U+DC8E">>, <<"U+D835", "U+DC8F">>, <<"U+D835", "U+DC90">>,
    <<"U+D835", "U+DC91">>, <<"U+D835", "U+DC92">>, <<"U+D835", "U+DC93">>,
    <<"U+D835", "U+DC94">>, <<"U+D835", "U+DC95">>, <<"U+D835", "U+DC96">>,
    <<"U+D835", "U+DC97">>, <<"U+D835", "U+DC98">>, <<"U+D835", "U+DC99">>,
    <<"U+D835", "U+DC9A">>, <<"U+D835", "U+DC9B">>, <<"U+D835", "U+DC9C">>,
    <<"U+D835", "U+DC9E">>, <<"U+D835", "U+DC9F">>, <<"U+D835", "U+DCA2">>,
    <<"U+D835", "U+DCA5">>, <<"U+D835", "U+DCA6">>, <<"U+D835", "U+DCA9">>,
    <<"U+D835", "U+DCAA">>, <<"U+D835", "U+DCAB">>, <<"U+D835", "U+DCAC">>,
    <<"U+D835", "U+DCAE">>, <<"U+D835", "U+DCAF">>, <<"U+D835", "U+DCB0">>,
    <<"U+D835", "U+DCB1">>, <<"U+D835", "U+DCB2">>, <<"U+D835", "U+DCB3">>,
    <<"U+D835", "U+DCB4">>, <<"U+D835", "U+DCB5">>, <<"U+D835", "U+DCB6">>,
    <<"U+D835", "U+DCB7">>, <<"U+D835", "U+DCB8">>, <<"U+D835", "U+DCB9">>,
    <<"U+D835", "U+DCBB">>, <<"U+D835", "U+DCBD">>, <<"U+D835", "U+DCBE">>,
    <<"U+D835", "U+DCBF">>, <<"U+D835", "U+DCC0">>, <<"U+D835", "U+DCC1">>,
    <<"U+D835", "U+DCC2">>, <<"U+D835", "U+DCC3">>, <<"U+D835", "U+DCC5">>,
    <<"U+D835", "U+DCC6">>, <<"U+D835", "U+DCC7">>, <<"U+D835", "U+DCC8">>,
    <<"U+D835", "U+DCC9">>, <<"U+D835", "U+DCCA">>, <<"U+D835", "U+DCCB">>,
    <<"U+D835", "U+DCCC">>, <<"U+D835", "U+DCCD">>, <<"U+D835", "U+DCCE">>,
    <<"U+D835", "U+DCCF">>, <<"U+D835", "U+DCD0">>, <<"U+D835", "U+DCD1">>,
    <<"U+D835", "U+DCD2">>, <<"U+D835", "U+DCD3">>, <<"U+D835", "U+DCD4">>,
    <<"U+D835", "U+DCD5">>, <<"U+D835", "U+DCD6">>, <<"U+D835", "U+DCD7">>,
    <<"U+D835", "U+DCD8">>, <<"U+D835", "U+DCD9">>, <<"U+D835", "U+DCDA">>,
    <<"U+D835", "U+DCDB">>, <<"U+D835", "U+DCDC">>, <<"U+D835", "U+DCDD">>,
    <<"U+D835", "U+DCDE">>, <<"U+D835", "U+DCDF">>, <<"U+D835", "U+DCE0">>,
    <<"U+D835", "U+DCE1">>, <<"U+D835", "U+DCE2">>, <<"U+D835", "U+DCE3">>,
    <<"U+D835", "U+DCE4">>, <<"U+D835", "U+DCE5">>, <<"U+D835", "U+DCE6">>,
    <<"U+D835", "U+DCE7">>, <<"U+D835", "U+DCE8">>, <<"U+D835", "U+DCE9">>,
    <<"U+D835", "U+DCEA">>, <<"U+D835", "U+DCEB">>, <<"U+D835", "U+DCEC">>,
    <<"U+D835", "U+DCED">>, <<"U+D835", "U+DCEE">>, <<"U+D835", "U+DCEF">>,
    <<"U+D835", "U+DCF0">>, <<"U+D835", "U+DCF1">>, <<"U+D835", "U+DCF2">>,
    <<"U+D835", "U+DCF3">>, <<"U+D835", "U+DCF4">>, <<"U+D835", "U+DCF5">>,
    <<"U+D835", "U+DCF6">>, <<"U+D835", "U+DCF7">>, <<"U+D835", "U+DCF8">>,
    <<"U+D835", "U+DCF9">>, <<"U+D835", "U+DCFA">>, <<"U+D835", "U+DCFB">>,
    <<"U+D835", "U+DCFC">>, <<"U+D835", "U+DCFD">>, <<"U+D835", "U+DCFE">>,
    <<"U+D835", "U+DCFF">>, <<"U+D835", "U+DD00">>, <<"U+D835", "U+DD01">>,
    <<"U+D835", "U+DD02">>, <<"U+D835", "U+DD03">>, <<"U+D835", "U+DD04">>,
    <<"U+D835", "U+DD05">>, <<"U+D835", "U+DD07">>, <<"U+D835", "U+DD08">>,
    <<"U+D835", "U+DD09">>, <<"U+D835", "U+DD0A">>, <<"U+D835", "U+DD0D">>,
    <<"U+D835", "U+DD0E">>, <<"U+D835", "U+DD0F">>, <<"U+D835", "U+DD10">>,
    <<"U+D835", "U+DD11">>, <<"U+D835", "U+DD12">>, <<"U+D835", "U+DD13">>,
    <<"U+D835", "U+DD14">>, <<"U+D835", "U+DD16">>, <<"U+D835", "U+DD17">>,
    <<"U+D835", "U+DD18">>, <<"U+D835", "U+DD19">>, <<"U+D835", "U+DD1A">>,
    <<"U+D835", "U+DD1B">>, <<"U+D835", "U+DD1C">>, <<"U+D835", "U+DD1E">>,
    <<"U+D835", "U+DD1F">>, <<"U+D835", "U+DD20">>, <<"U+D835", "U+DD21">>,
    <<"U+D835", "U+DD22">>, <<"U+D835", "U+DD23">>, <<"U+D835", "U+DD24">>,
    <<"U+D835", "U+DD25">>, <<"U+D835", "U+DD26">>, <<"U+D835", "U+DD27">>,
    <<"U+D835", "U+DD28">>, <<"U+D835", "U+DD29">>, <<"U+D835", "U+DD2A">>,
    <<"U+D835", "U+DD2B">>, <<"U+D835", "U+DD2C">>, <<"U+D835", "U+DD2D">>,
    <<"U+D835", "U+DD2E">>, <<"U+D835", "U+DD2F">>, <<"U+D835", "U+DD30">>,
    <<"U+D835", "U+DD31">>, <<"U+D835", "U+DD32">>, <<"U+D835", "U+DD33">>,
    <<"U+D835", "U+DD34">>, <<"U+D835", "U+DD35">>, <<"U+D835", "U+DD36">>,
    <<"U+D835", "U+DD37">>, <<"U+D835", "U+DD38">>, <<"U+D835", "U+DD39">>,
    <<"U+D835", "U+DD3B">>, <<"U+D835", "U+DD3C">>, <<"U+D835", "U+DD3D">>,
    <<"U+D835", "U+DD3E">>, <<"U+D835", "U+DD40">>, <<"U+D835", "U+DD41">>,
    <<"U+D835", "U+DD42">>, <<"U+D835", "U+DD43">>, <<"U+D835", "U+DD44">>,
    <<"U+D835", "U+DD46">>, <<"U+D835", "U+DD4A">>, <<"U+D835", "U+DD4B">>,
    <<"U+D835", "U+DD4C">>, <<"U+D835", "U+DD4D">>, <<"U+D835", "U+DD4E">>,
    <<"U+D835", "U+DD4F">>, <<"U+D835", "U+DD50">>, <<"U+D835", "U+DD52">>,
    <<"U+D835", "U+DD53">>, <<"U+D835", "U+DD54">>, <<"U+D835", "U+DD55">>,
    <<"U+D835", "U+DD56">>, <<"U+D835", "U+DD57">>, <<"U+D835", "U+DD58">>,
    <<"U+D835", "U+DD59">>, <<"U+D835", "U+DD5A">>, <<"U+D835", "U+DD5B">>,
    <<"U+D835", "U+DD5C">>, <<"U+D835", "U+DD5D">>, <<"U+D835", "U+DD5E">>,
    <<"U+D835", "U+DD5F">>, <<"U+D835", "U+DD60">>, <<"U+D835", "U+DD61">>,
    <<"U+D835", "U+DD62">>, <<"U+D835", "U+DD63">>, <<"U+D835", "U+DD64">>,
    <<"U+D835", "U+DD65">>, <<"U+D835", "U+DD66">>, <<"U+D835", "U+DD67">>,
    <<"U+D835", "U+DD68">>, <<"U+D835", "U+DD69">>, <<"U+D835", "U+DD6A">>,
    <<"U+D835", "U+DD6B">>, <<"U+D835", "U+DD6C">>, <<"U+D835", "U+DD6D">>,
    <<"U+D835", "U+DD6E">>, <<"U+D835", "U+DD6F">>, <<"U+D835", "U+DD70">>,
    <<"U+D835", "U+DD71">>, <<"U+D835", "U+DD72">>, <<"U+D835", "U+DD73">>,
    <<"U+D835", "U+DD74">>, <<"U+D835", "U+DD75">>, <<"U+D835", "U+DD76">>,
    <<"U+D835", "U+DD77">>, <<"U+D835", "U+DD78">>, <<"U+D835", "U+DD79">>,
    <<"U+D835", "U+DD7A">>, <<"U+D835", "U+DD7B">>, <<"U+D835", "U+DD7C">>,
    <<"U+D835", "U+DD7D">>, <<"U+D835", "U+DD7E">>, <<"U+D835", "U+DD7F">>,
    <<"U+D835", "U+DD80">>, <<"U+D835", "U+DD81">>, <<"U+D835", "U+DD82">>,
    <<"U+D835", "U+DD83">>, <<"U+D835", "U+DD84">>, <<"U+D835", "U+DD85">>,
    <<"U+D835", "U+DD86">>, <<"U+D835", "U+DD87">>, <<"U+D835", "U+DD88">>,
    <<"U+D835", "U+DD89">>, <<"U+D835", "U+DD8A">>, <<"U+D835", "U+DD8B">>,
    <<"U+D835", "U+DD8C">>, <<"U+D835", "U+DD8D">>, <<"U+D835", "U+DD8E">>,
    <<"U+D835", "U+DD8F">>, <<"U+D835", "U+DD90">>, <<"U+D835", "U+DD91">>,
    <<"U+D835", "U+DD92">>, <<"U+D835", "U+DD93">>, <<"U+D835", "U+DD94">>,
    <<"U+D835", "U+DD95">>, <<"U+D835", "U+DD96">>, <<"U+D835", "U+DD97">>,
    <<"U+D835", "U+DD98">>, <<"U+D835", "U+DD99">>, <<"U+D835", "U+DD9A">>,
    <<"U+D835", "U+DD9B">>, <<"U+D835", "U+DD9C">>, <<"U+D835", "U+DD9D">>,
    <<"U+D835", "U+DD9E">>, <<"U+D835", "U+DD9F">>, <<"U+D835", "U+DDA0">>,
    <<"U+D835", "U+DDA1">>, <<"U+D835", "U+DDA2">>, <<"U+D835", "U+DDA3">>,
    <<"U+D835", "U+DDA4">>, <<"U+D835", "U+DDA5">>, <<"U+D835", "U+DDA6">>,
    <<"U+D835", "U+DDA7">>, <<"U+D835", "U+DDA8">>, <<"U+D835", "U+DDA9">>,
    <<"U+D835", "U+DDAA">>, <<"U+D835", "U+DDAB">>, <<"U+D835", "U+DDAC">>,
    <<"U+D835", "U+DDAD">>, <<"U+D835", "U+DDAE">>, <<"U+D835", "U+DDAF">>,
    <<"U+D835", "U+DDB0">>, <<"U+D835", "U+DDB1">>, <<"U+D835", "U+DDB2">>,
    <<"U+D835", "U+DDB3">>, <<"U+D835", "U+DDB4">>, <<"U+D835", "U+DDB5">>,
    <<"U+D835", "U+DDB6">>, <<"U+D835", "U+DDB7">>, <<"U+D835", "U+DDB8">>,
    <<"U+D835", "U+DDB9">>, <<"U+D835", "U+DDBA">>, <<"U+D835", "U+DDBB">>,
    <<"U+D835", "U+DDBC">>, <<"U+D835", "U+DDBD">>, <<"U+D835", "U+DDBE">>,
    <<"U+D835", "U+DDBF">>, <<"U+D835", "U+DDC0">>, <<"U+D835", "U+DDC1">>,
    <<"U+D835", "U+DDC2">>, <<"U+D835", "U+DDC3">>, <<"U+D835", "U+DDC4">>,
    <<"U+D835", "U+DDC5">>, <<"U+D835", "U+DDC6">>, <<"U+D835", "U+DDC7">>,
    <<"U+D835", "U+DDC8">>, <<"U+D835", "U+DDC9">>, <<"U+D835", "U+DDCA">>,
    <<"U+D835", "U+DDCB">>, <<"U+D835", "U+DDCC">>, <<"U+D835", "U+DDCD">>,
    <<"U+D835", "U+DDCE">>, <<"U+D835", "U+DDCF">>, <<"U+D835", "U+DDD0">>,
    <<"U+D835", "U+DDD1">>, <<"U+D835", "U+DDD2">>, <<"U+D835", "U+DDD3">>,
    <<"U+D835", "U+DDD4">>, <<"U+D835", "U+DDD5">>, <<"U+D835", "U+DDD6">>,
    <<"U+D835", "U+DDD7">>, <<"U+D835", "U+DDD8">>, <<"U+D835", "U+DDD9">>,
    <<"U+D835", "U+DDDA">>, <<"U+D835", "U+DDDB">>, <<"U+D835", "U+DDDC">>,
    <<"U+D835", "U+DDDD">>, <<"U+D835", "U+DDDE">>, <<"U+D835", "U+DDDF">>,
    <<"U+D835", "U+DDE0">>, <<"U+D835", "U+DDE1">>, <<"U+D835", "U+DDE2">>,
    <<"U+D835", "U+DDE3">>, <<"U+D835", "U+DDE4">>, <<"U+D835", "U+DDE5">>,
    <<"U+D835", "U+DDE6">>, <<"U+D835", "U+DDE7">>, <<"U+D835", "U+DDE8">>,
    <<"U+D835", "U+DDE9">>, <<"U+D835", "U+DDEA">>, <<"U+D835", "U+DDEB">>,
    <<"U+D835", "U+DDEC">>, <<"U+D835", "U+DDED">>, <<"U+D835", "U+DDEE">>,
    <<"U+D835", "U+DDEF">>, <<"U+D835", "U+DDF0">>, <<"U+D835", "U+DDF1">>,
    <<"U+D835", "U+DDF2">>, <<"U+D835", "U+DDF3">>, <<"U+D835", "U+DDF4">>,
    <<"U+D835", "U+DDF5">>, <<"U+D835", "U+DDF6">>, <<"U+D835", "U+DDF7">>,
    <<"U+D835", "U+DDF8">>, <<"U+D835", "U+DDF9">>, <<"U+D835", "U+DDFA">>,
    <<"U+D835", "U+DDFB">>, <<"U+D835", "U+DDFC">>, <<"U+D835", "U+DDFD">>,
    <<"U+D835", "U+DDFE">>, <<"U+D835", "U+DDFF">>, <<"U+D835", "U+DE00">>,
    <<"U+D835", "U+DE01">>, <<"U+D835", "U+DE02">>, <<"U+D835", "U+DE03">>,
    <<"U+D835", "U+DE04">>, <<"U+D835", "U+DE05">>, <<"U+D835", "U+DE06">>,
    <<"U+D835", "U+DE07">>, <<"U+D835", "U+DE08">>, <<"U+D835", "U+DE09">>,
    <<"U+D835", "U+DE0A">>, <<"U+D835", "U+DE0B">>, <<"U+D835", "U+DE0C">>,
    <<"U+D835", "U+DE0D">>, <<"U+D835", "U+DE0E">>, <<"U+D835", "U+DE0F">>,
    <<"U+D835", "U+DE10">>, <<"U+D835", "U+DE11">>, <<"U+D835", "U+DE12">>,
    <<"U+D835", "U+DE13">>, <<"U+D835", "U+DE14">>, <<"U+D835", "U+DE15">>,
    <<"U+D835", "U+DE16">>, <<"U+D835", "U+DE17">>, <<"U+D835", "U+DE18">>,
    <<"U+D835", "U+DE19">>, <<"U+D835", "U+DE1A">>, <<"U+D835", "U+DE1B">>,
    <<"U+D835", "U+DE1C">>, <<"U+D835", "U+DE1D">>, <<"U+D835", "U+DE1E">>,
    <<"U+D835", "U+DE1F">>, <<"U+D835", "U+DE20">>, <<"U+D835", "U+DE21">>,
    <<"U+D835", "U+DE22">>, <<"U+D835", "U+DE23">>, <<"U+D835", "U+DE24">>,
    <<"U+D835", "U+DE25">>, <<"U+D835", "U+DE26">>, <<"U+D835", "U+DE27">>,
    <<"U+D835", "U+DE28">>, <<"U+D835", "U+DE29">>, <<"U+D835", "U+DE2A">>,
    <<"U+D835", "U+DE2B">>, <<"U+D835", "U+DE2C">>, <<"U+D835", "U+DE2D">>,
    <<"U+D835", "U+DE2E">>, <<"U+D835", "U+DE2F">>, <<"U+D835", "U+DE30">>,
    <<"U+D835", "U+DE31">>, <<"U+D835", "U+DE32">>, <<"U+D835", "U+DE33">>,
    <<"U+D835", "U+DE34">>, <<"U+D835", "U+DE35">>, <<"U+D835", "U+DE36">>,
    <<"U+D835", "U+DE37">>, <<"U+D835", "U+DE38">>, <<"U+D835", "U+DE39">>,
    <<"U+D835", "U+DE3A">>, <<"U+D835", "U+DE3B">>, <<"U+D835", "U+DE3C">>,
    <<"U+D835", "U+DE3D">>, <<"U+D835", "U+DE3E">>, <<"U+D835", "U+DE3F">>,
    <<"U+D835", "U+DE40">>, <<"U+D835", "U+DE41">>, <<"U+D835", "U+DE42">>,
    <<"U+D835", "U+DE43">>, <<"U+D835", "U+DE44">>, <<"U+D835", "U+DE45">>,
    <<"U+D835", "U+DE46">>, <<"U+D835", "U+DE47">>, <<"U+D835", "U+DE48">>,
    <<"U+D835", "U+DE49">>, <<"U+D835", "U+DE4A">>, <<"U+D835", "U+DE4B">>,
    <<"U+D835", "U+DE4C">>, <<"U+D835", "U+DE4D">>, <<"U+D835", "U+DE4E">>,
    <<"U+D835", "U+DE4F">>, <<"U+D835", "U+DE50">>, <<"U+D835", "U+DE51">>,
    <<"U+D835", "U+DE52">>, <<"U+D835", "U+DE53">>, <<"U+D835", "U+DE54">>,
    <<"U+D835", "U+DE55">>, <<"U+D835", "U+DE56">>, <<"U+D835", "U+DE57">>,
    <<"U+D835", "U+DE58">>, <<"U+D835", "U+DE59">>, <<"U+D835", "U+DE5A">>,
    <<"U+D835", "U+DE5B">>, <<"U+D835", "U+DE5C">>, <<"U+D835", "U+DE5D">>,
    <<"U+D835", "U+DE5E">>, <<"U+D835", "U+DE5F">>, <<"U+D835", "U+DE60">>,
    <<"U+D835", "U+DE61">>, <<"U+D835", "U+DE62">>, <<"U+D835", "U+DE63">>,
    <<"U+D835", "U+DE64">>, <<"U+D835", "U+DE65">>, <<"U+D835", "U+DE66">>,
    <<"U+D835", "U+DE67">>, <<"U+D835", "U+DE68">>, <<"U+D835", "U+DE69">>,
    <<"U+D835", "U+DE6A">>, <<"U+D835", "U+DE6B">>, <<"U+D835", "U+DE6C">>,
    <<"U+D835", "U+DE6D">>, <<"U+D835", "U+DE6E">>, <<"U+D835", "U+DE6F">>,
    <<"U+D835", "U+DE70">>, <<"U+D835", "U+DE71">>, <<"U+D835", "U+DE72">>,
    <<"U+D835", "U+DE73">>, <<"U+D835", "U+DE74">>, <<"U+D835", "U+DE75">>,
    <<"U+D835", "U+DE76">>, <<"U+D835", "U+DE77">>, <<"U+D835", "U+DE78">>,
    <<"U+D835", "U+DE79">>, <<"U+D835", "U+DE7A">>, <<"U+D835", "U+DE7B">>,
    <<"U+D835", "U+DE7C">>, <<"U+D835", "U+DE7D">>, <<"U+D835", "U+DE7E">>,
    <<"U+D835", "U+DE7F">>, <<"U+D835", "U+DE80">>, <<"U+D835", "U+DE81">>,
    <<"U+D835", "U+DE82">>, <<"U+D835", "U+DE83">>, <<"U+D835", "U+DE84">>,
    <<"U+D835", "U+DE85">>, <<"U+D835", "U+DE86">>, <<"U+D835", "U+DE87">>,
    <<"U+D835", "U+DE88">>, <<"U+D835", "U+DE89">>, <<"U+D835", "U+DE8A">>,
    <<"U+D835", "U+DE8B">>, <<"U+D835", "U+DE8C">>, <<"U+D835", "U+DE8D">>,
    <<"U+D835", "U+DE8E">>, <<"U+D835", "U+DE8F">>, <<"U+D835", "U+DE90">>,
    <<"U+D835", "U+DE91">>, <<"U+D835", "U+DE92">>, <<"U+D835", "U+DE93">>,
    <<"U+D835", "U+DE94">>, <<"U+D835", "U+DE95">>, <<"U+D835", "U+DE96">>,
    <<"U+D835", "U+DE97">>, <<"U+D835", "U+DE98">>, <<"U+D835", "U+DE99">>,
    <<"U+D835", "U+DE9A">>, <<"U+D835", "U+DE9B">>, <<"U+D835", "U+DE9C">>,
    <<"U+D835", "U+DE9D">>, <<"U+D835", "U+DE9E">>, <<"U+D835", "U+DE9F">>,
    <<"U+D835", "U+DEA0">>, <<"U+D835", "U+DEA1">>, <<"U+D835", "U+DEA2">>,
    <<"U+D835", "U+DEA3">>, <<"U+D835", "U+DEA4">>, <<"U+D835", "U+DEA5">>,
    <<"U+D835", "U+DEA8">>, <<"U+D835", "U+DEA9">>, <<"U+D835", "U+DEAA">>,
    <<"U+D835", "U+DEAB">>, <<"U+D835", "U+DEAC">>, <<"U+D835", "U+DEAD">>,
    <<"U+D835", "U+DEAE">>, <<"U+D835", "U+DEAF">>, <<"U+D835", "U+DEB0">>,
    <<"U+D835", "U+DEB1">>, <<"U+D835", "U+DEB2">>, <<"U+D835", "U+DEB3">>,
    <<"U+D835", "U+DEB4">>, <<"U+D835", "U+DEB5">>, <<"U+D835", "U+DEB6">>,
    <<"U+D835", "U+DEB7">>, <<"U+D835", "U+DEB8">>, <<"U+D835", "U+DEB9">>,
    <<"U+D835", "U+DEBA">>, <<"U+D835", "U+DEBB">>, <<"U+D835", "U+DEBC">>,
    <<"U+D835", "U+DEBD">>, <<"U+D835", "U+DEBE">>, <<"U+D835", "U+DEBF">>,
    <<"U+D835", "U+DEC0">>, <<"U+D835", "U+DEC2">>, <<"U+D835", "U+DEC3">>,
    <<"U+D835", "U+DEC4">>, <<"U+D835", "U+DEC5">>, <<"U+D835", "U+DEC6">>,
    <<"U+D835", "U+DEC7">>, <<"U+D835", "U+DEC8">>, <<"U+D835", "U+DEC9">>,
    <<"U+D835", "U+DECA">>, <<"U+D835", "U+DECB">>, <<"U+D835", "U+DECC">>,
    <<"U+D835", "U+DECD">>, <<"U+D835", "U+DECE">>, <<"U+D835", "U+DECF">>,
    <<"U+D835", "U+DED0">>, <<"U+D835", "U+DED1">>, <<"U+D835", "U+DED2">>,
    <<"U+D835", "U+DED3">>, <<"U+D835", "U+DED4">>, <<"U+D835", "U+DED5">>,
    <<"U+D835", "U+DED6">>, <<"U+D835", "U+DED7">>, <<"U+D835", "U+DED8">>,
    <<"U+D835", "U+DED9">>, <<"U+D835", "U+DEDA">>, <<"U+D835", "U+DEDC">>,
    <<"U+D835", "U+DEDD">>, <<"U+D835", "U+DEDE">>, <<"U+D835", "U+DEDF">>,
    <<"U+D835", "U+DEE0">>, <<"U+D835", "U+DEE1">>, <<"U+D835", "U+DEE2">>,
    <<"U+D835", "U+DEE3">>, <<"U+D835", "U+DEE4">>, <<"U+D835", "U+DEE5">>,
    <<"U+D835", "U+DEE6">>, <<"U+D835", "U+DEE7">>, <<"U+D835", "U+DEE8">>,
    <<"U+D835", "U+DEE9">>, <<"U+D835", "U+DEEA">>, <<"U+D835", "U+DEEB">>,
    <<"U+D835", "U+DEEC">>, <<"U+D835", "U+DEED">>, <<"U+D835", "U+DEEE">>,
    <<"U+D835", "U+DEEF">>, <<"U+D835", "U+DEF0">>, <<"U+D835", "U+DEF1">>,
    <<"U+D835", "U+DEF2">>, <<"U+D835", "U+DEF3">>, <<"U+D835", "U+DEF4">>,
    <<"U+D835", "U+DEF5">>, <<"U+D835", "U+DEF6">>, <<"U+D835", "U+DEF7">>,
    <<"U+D835", "U+DEF8">>, <<"U+D835", "U+DEF9">>, <<"U+D835", "U+DEFA">>,
    <<"U+D835", "U+DEFC">>, <<"U+D835", "U+DEFD">>, <<"U+D835", "U+DEFE">>,
    <<"U+D835", "U+DEFF">>, <<"U+D835", "U+DF00">>, <<"U+D835", "U+DF01">>,
    <<"U+D835", "U+DF02">>, <<"U+D835", "U+DF03">>, <<"U+D835", "U+DF04">>,
    <<"U+D835", "U+DF05">>, <<"U+D835", "U+DF06">>, <<"U+D835", "U+DF07">>,
    <<"U+D835", "U+DF08">>, <<"U+D835", "U+DF09">>, <<"U+D835", "U+DF0A">>,
    <<"U+D835", "U+DF0B">>, <<"U+D835", "U+DF0C">>, <<"U+D835", "U+DF0D">>,
    <<"U+D835", "U+DF0E">>, <<"U+D835", "U+DF0F">>, <<"U+D835", "U+DF10">>,
    <<"U+D835", "U+DF11">>, <<"U+D835", "U+DF12">>, <<"U+D835", "U+DF13">>,
    <<"U+D835", "U+DF14">>, <<"U+D835", "U+DF16">>, <<"U+D835", "U+DF17">>,
    <<"U+D835", "U+DF18">>, <<"U+D835", "U+DF19">>, <<"U+D835", "U+DF1A">>,
    <<"U+D835", "U+DF1B">>, <<"U+D835", "U+DF1C">>, <<"U+D835", "U+DF1D">>,
    <<"U+D835", "U+DF1E">>, <<"U+D835", "U+DF1F">>, <<"U+D835", "U+DF20">>,
    <<"U+D835", "U+DF21">>, <<"U+D835", "U+DF22">>, <<"U+D835", "U+DF23">>,
    <<"U+D835", "U+DF24">>, <<"U+D835", "U+DF25">>, <<"U+D835", "U+DF26">>,
    <<"U+D835", "U+DF27">>, <<"U+D835", "U+DF28">>, <<"U+D835", "U+DF29">>,
    <<"U+D835", "U+DF2A">>, <<"U+D835", "U+DF2B">>, <<"U+D835", "U+DF2C">>,
    <<"U+D835", "U+DF2D">>, <<"U+D835", "U+DF2E">>, <<"U+D835", "U+DF2F">>,
    <<"U+D835", "U+DF30">>, <<"U+D835", "U+DF31">>, <<"U+D835", "U+DF32">>,
    <<"U+D835", "U+DF33">>, <<"U+D835", "U+DF34">>, <<"U+D835", "U+DF36">>,
    <<"U+D835", "U+DF37">>, <<"U+D835", "U+DF38">>, <<"U+D835", "U+DF39">>,
    <<"U+D835", "U+DF3A">>, <<"U+D835", "U+DF3B">>, <<"U+D835", "U+DF3C">>,
    <<"U+D835", "U+DF3D">>, <<"U+D835", "U+DF3E">>, <<"U+D835", "U+DF3F">>,
    <<"U+D835", "U+DF40">>, <<"U+D835", "U+DF41">>, <<"U+D835", "U+DF42">>,
    <<"U+D835", "U+DF43">>, <<"U+D835", "U+DF44">>, <<"U+D835", "U+DF45">>,
    <<"U+D835", "U+DF46">>, <<"U+D835", "U+DF47">>, <<"U+D835", "U+DF48">>,
    <<"U+D835", "U+DF49">>, <<"U+D835", "U+DF4A">>, <<"U+D835", "U+DF4B">>,
    <<"U+D835", "U+DF4C">>, <<"U+D835", "U+DF4D">>, <<"U+D835", "U+DF4E">>,
    <<"U+D835", "U+DF50">>, <<"U+D835", "U+DF51">>, <<"U+D835", "U+DF52">>,
    <<"U+D835", "U+DF53">>, <<"U+D835", "U+DF54">>, <<"U+D835", "U+DF55">>,
    <<"U+D835", "U+DF56">>, <<"U+D835", "U+DF57">>, <<"U+D835", "U+DF58">>,
    <<"U+D835", "U+DF59">>, <<"U+D835", "U+DF5A">>, <<"U+D835", "U+DF5B">>,
    <<"U+D835", "U+DF5C">>, <<"U+D835", "U+DF5D">>, <<"U+D835", "U+DF5E">>,
    <<"U+D835", "U+DF5F">>, <<"U+D835", "U+DF60">>, <<"U+D835", "U+DF61">>,
    <<"U+D835", "U+DF62">>, <<"U+D835", "U+DF63">>, <<"U+D835", "U+DF64">>,
    <<"U+D835", "U+DF65">>, <<"U+D835", "U+DF66">>, <<"U+D835", "U+DF67">>,
    <<"U+D835", "U+DF68">>, <<"U+D835", "U+DF69">>, <<"U+D835", "U+DF6A">>,
    <<"U+D835", "U+DF6B">>, <<"U+D835", "U+DF6C">>, <<"U+D835", "U+DF6D">>,
    <<"U+D835", "U+DF6E">>, <<"U+D835", "U+DF70">>, <<"U+D835", "U+DF71">>,
    <<"U+D835", "U+DF72">>, <<"U+D835", "U+DF73">>, <<"U+D835", "U+DF74">>,
    <<"U+D835", "U+DF75">>, <<"U+D835", "U+DF76">>, <<"U+D835", "U+DF77">>,
    <<"U+D835", "U+DF78">>, <<"U+D835", "U+DF79">>, <<"U+D835", "U+DF7A">>,
    <<"U+D835", "U+DF7B">>, <<"U+D835", "U+DF7C">>, <<"U+D835", "U+DF7D">>,
    <<"U+D835", "U+DF7E">>, <<"U+D835", "U+DF7F">>, <<"U+D835", "U+DF80">>,
    <<"U+D835", "U+DF81">>, <<"U+D835", "U+DF82">>, <<"U+D835", "U+DF83">>,
    <<"U+D835", "U+DF84">>, <<"U+D835", "U+DF85">>, <<"U+D835", "U+DF86">>,
    <<"U+D835", "U+DF87">>, <<"U+D835", "U+DF88">>, <<"U+D835", "U+DF8A">>,
    <<"U+D835", "U+DF8B">>, <<"U+D835", "U+DF8C">>, <<"U+D835", "U+DF8D">>,
    <<"U+D835", "U+DF8E">>, <<"U+D835", "U+DF8F">>, <<"U+D835", "U+DF90">>,
    <<"U+D835", "U+DF91">>, <<"U+D835", "U+DF92">>, <<"U+D835", "U+DF93">>,
    <<"U+D835", "U+DF94">>, <<"U+D835", "U+DF95">>, <<"U+D835", "U+DF96">>,
    <<"U+D835", "U+DF97">>, <<"U+D835", "U+DF98">>, <<"U+D835", "U+DF99">>,
    <<"U+D835", "U+DF9A">>, <<"U+D835", "U+DF9B">>, <<"U+D835", "U+DF9C">>,
    <<"U+D835", "U+DF9D">>, <<"U+D835", "U+DF9E">>, <<"U+D835", "U+DF9F">>,
    <<"U+D835", "U+DFA0">>, <<"U+D835", "U+DFA1">>, <<"U+D835", "U+DFA2">>,
    <<"U+D835", "U+DFA3">>, <<"U+D835", "U+DFA4">>, <<"U+D835", "U+DFA5">>,
    <<"U+D835", "U+DFA6">>, <<"U+D835", "U+DFA7">>, <<"U+D835", "U+DFA8">>,
    <<"U+D835", "U+DFAA">>, <<"U+D835", "U+DFAB">>, <<"U+D835", "U+DFAC">>,
    <<"U+D835", "U+DFAD">>, <<"U+D835", "U+DFAE">>, <<"U+D835", "U+DFAF">>,
    <<"U+D835", "U+DFB0">>, <<"U+D835", "U+DFB1">>, <<"U+D835", "U+DFB2">>,
    <<"U+D835", "U+DFB3">>, <<"U+D835", "U+DFB4">>, <<"U+D835", "U+DFB5">>,
    <<"U+D835", "U+DFB6">>, <<"U+D835", "U+DFB7">>, <<"U+D835", "U+DFB8">>,
    <<"U+D835", "U+DFB9">>, <<"U+D835", "U+DFBA">>, <<"U+D835", "U+DFBB">>,
    <<"U+D835", "U+DFBC">>, <<"U+D835", "U+DFBD">>, <<"U+D835", "U+DFBE">>,
    <<"U+D835", "U+DFBF">>, <<"U+D835", "U+DFC0">>, <<"U+D835", "U+DFC1">>,
    <<"U+D835", "U+DFC2">>, <<"U+D835", "U+DFC4">>, <<"U+D835", "U+DFC5">>,
    <<"U+D835", "U+DFC6">>, <<"U+D835", "U+DFC7">>, <<"U+D835", "U+DFC8">>,
    <<"U+D835", "U+DFC9">>, <<"U+D835", "U+DFCA">>, <<"U+D835", "U+DFCB">>,
    <<"U+D837", "U+DF00">>, <<"U+D837", "U+DF01">>, <<"U+D837", "U+DF02">>,
    <<"U+D837", "U+DF03">>, <<"U+D837", "U+DF04">>, <<"U+D837", "U+DF05">>,
    <<"U+D837", "U+DF06">>, <<"U+D837", "U+DF07">>, <<"U+D837", "U+DF08">>,
    <<"U+D837", "U+DF09">>, <<"U+D837", "U+DF0B">>, <<"U+D837", "U+DF0C">>,
    <<"U+D837", "U+DF0D">>, <<"U+D837", "U+DF0E">>, <<"U+D837", "U+DF0F">>,
    <<"U+D837", "U+DF10">>, <<"U+D837", "U+DF11">>, <<"U+D837", "U+DF12">>,
    <<"U+D837", "U+DF13">>, <<"U+D837", "U+DF14">>, <<"U+D837", "U+DF15">>,
    <<"U+D837", "U+DF16">>, <<"U+D837", "U+DF17">>, <<"U+D837", "U+DF18">>,
    <<"U+D837", "U+DF19">>, <<"U+D837", "U+DF1A">>, <<"U+D837", "U+DF1B">>,
    <<"U+D837", "U+DF1C">>, <<"U+D837", "U+DF1D">>, <<"U+D837", "U+DF1E">>,
    <<"U+D837", "U+DF25">>, <<"U+D837", "U+DF26">>, <<"U+D837", "U+DF27">>,
    <<"U+D837", "U+DF28">>, <<"U+D837", "U+DF29">>, <<"U+D837", "U+DF2A">>,
    <<"U+D83A", "U+DD00">>, <<"U+D83A", "U+DD01">>, <<"U+D83A", "U+DD02">>,
    <<"U+D83A", "U+DD03">>, <<"U+D83A", "U+DD04">>, <<"U+D83A", "U+DD05">>,
    <<"U+D83A", "U+DD06">>, <<"U+D83A", "U+DD07">>, <<"U+D83A", "U+DD08">>,
    <<"U+D83A", "U+DD09">>, <<"U+D83A", "U+DD0A">>, <<"U+D83A", "U+DD0B">>,
    <<"U+D83A", "U+DD0C">>, <<"U+D83A", "U+DD0D">>, <<"U+D83A", "U+DD0E">>,
    <<"U+D83A", "U+DD0F">>, <<"U+D83A", "U+DD10">>, <<"U+D83A", "U+DD11">>,
    <<"U+D83A", "U+DD12">>, <<"U+D83A", "U+DD13">>, <<"U+D83A", "U+DD14">>,
    <<"U+D83A", "U+DD15">>, <<"U+D83A", "U+DD16">>, <<"U+D83A", "U+DD17">>,
    <<"U+D83A", "U+DD18">>, <<"U+D83A", "U+DD19">>, <<"U+D83A", "U+DD1A">>,
    <<"U+D83A", "U+DD1B">>, <<"U+D83A", "U+DD1C">>, <<"U+D83A", "U+DD1D">>,
    <<"U+D83A", "U+DD1E">>, <<"U+D83A", "U+DD1F">>, <<"U+D83A", "U+DD20">>,
    <<"U+D83A", "U+DD21">>, <<"U+D83A", "U+DD22">>, <<"U+D83A", "U+DD23">>,
    <<"U+D83A", "U+DD24">>, <<"U+D83A", "U+DD25">>, <<"U+D83A", "U+DD26">>,
    <<"U+D83A", "U+DD27">>, <<"U+D83A", "U+DD28">>, <<"U+D83A", "U+DD29">>,
    <<"U+D83A", "U+DD2A">>, <<"U+D83A", "U+DD2B">>, <<"U+D83A", "U+DD2C">>,
    <<"U+D83A", "U+DD2D">>, <<"U+D83A", "U+DD2E">>, <<"U+D83A", "U+DD2F">>,
    <<"U+D83A", "U+DD30">>, <<"U+D83A", "U+DD31">>, <<"U+D83A", "U+DD32">>,
    <<"U+D83A", "U+DD33">>, <<"U+D83A", "U+DD34">>, <<"U+D83A", "U+DD35">>,
    <<"U+D83A", "U+DD36">>, <<"U+D83A", "U+DD37">>, <<"U+D83A", "U+DD38">>,
    <<"U+D83A", "U+DD39">>, <<"U+D83A", "U+DD3A">>, <<"U+D83A", "U+DD3B">>,
    <<"U+D83A", "U+DD3C">>, <<"U+D83A", "U+DD3D">>, <<"U+D83A", "U+DD3E">>,
    <<"U+D83A", "U+DD3F">>, <<"U+D83A", "U+DD40">>, <<"U+D83A", "U+DD41">>,
    <<"U+D83A", "U+DD42">>, <<"U+D83A", "U+DD43">>, <<"U+D83C", "U+DD30">>,
    <<"U+D83C", "U+DD31">>, <<"U+D83C", "U+DD32">>, <<"U+D83C", "U+DD33">>,
    <<"U+D83C", "U+DD34">>, <<"U+D83C", "U+DD35">>, <<"U+D83C", "U+DD36">>,
    <<"U+D83C", "U+DD37">>, <<"U+D83C", "U+DD38">>, <<"U+D83C", "U+DD39">>,
    <<"U+D83C", "U+DD3A">>, <<"U+D83C", "U+DD3B">>, <<"U+D83C", "U+DD3C">>,
    <<"U+D83C", "U+DD3D">>, <<"U+D83C", "U+DD3E">>, <<"U+D83C", "U+DD3F">>,
    <<"U+D83C", "U+DD40">>, <<"U+D83C", "U+DD41">>, <<"U+D83C", "U+DD42">>,
    <<"U+D83C", "U+DD43">>, <<"U+D83C", "U+DD44">>, <<"U+D83C", "U+DD45">>,
    <<"U+D83C", "U+DD46">>, <<"U+D83C", "U+DD47">>, <<"U+D83C", "U+DD48">>,
    <<"U+D83C", "U+DD49">>, <<"U+D83C", "U+DD50">>, <<"U+D83C", "U+DD51">>,
    <<"U+D83C", "U+DD52">>, <<"U+D83C", "U+DD53">>, <<"U+D83C", "U+DD54">>,
    <<"U+D83C", "U+DD55">>, <<"U+D83C", "U+DD56">>, <<"U+D83C", "U+DD57">>,
    <<"U+D83C", "U+DD58">>, <<"U+D83C", "U+DD59">>, <<"U+D83C", "U+DD5A">>,
    <<"U+D83C", "U+DD5B">>, <<"U+D83C", "U+DD5C">>, <<"U+D83C", "U+DD5D">>,
    <<"U+D83C", "U+DD5E">>, <<"U+D83C", "U+DD5F">>, <<"U+D83C", "U+DD60">>,
    <<"U+D83C", "U+DD61">>, <<"U+D83C", "U+DD62">>, <<"U+D83C", "U+DD63">>,
    <<"U+D83C", "U+DD64">>, <<"U+D83C", "U+DD65">>, <<"U+D83C", "U+DD66">>,
    <<"U+D83C", "U+DD67">>, <<"U+D83C", "U+DD68">>, <<"U+D83C", "U+DD69">>,
    <<"U+D83C", "U+DD70">>, <<"U+D83C", "U+DD71">>, <<"U+D83C", "U+DD72">>,
    <<"U+D83C", "U+DD73">>, <<"U+D83C", "U+DD74">>, <<"U+D83C", "U+DD75">>,
    <<"U+D83C", "U+DD76">>, <<"U+D83C", "U+DD77">>, <<"U+D83C", "U+DD78">>,
    <<"U+D83C", "U+DD79">>, <<"U+D83C", "U+DD7A">>, <<"U+D83C", "U+DD7B">>,
    <<"U+D83C", "U+DD7C">>, <<"U+D83C", "U+DD7D">>, <<"U+D83C", "U+DD7E">>,
    <<"U+D83C", "U+DD7F">>, <<"U+D83C", "U+DD80">>, <<"U+D83C", "U+DD81">>,
    <<"U+D83C", "U+DD82">>, <<"U+D83C", "U+DD83">>, <<"U+D83C", "U+DD84">>,
    <<"U+D83C", "U+DD85">>, <<"U+D83C", "U+DD86">>, <<"U+D83C", "U+DD87">>,
    <<"U+D83C", "U+DD88">>, <<"U+D83C", "U+DD89">> }

HasLowerCase == {UpperUnits[i] : i \in DOMAIN UpperUnits}

LowerCase ==
  [c \in HasLowerCase |->
     LowerUnits[CHOOSE i \in DOMAIN UpperUnits : UpperUnits[i] = c]]

HasLowerCasePair == {UpperPairs[i] : i \in DOMAIN UpperPairs}

LowerCasePairs ==
  [p \in HasLowerCasePair |->
     LowerPairs[CHOOSE i \in DOMAIN UpperPairs : UpperPairs[i] = p]]

\* the surrogate pairs that the code unit s[k] can be part of
PairsAt(s, k) == {<<s[j], s[j + 1]>> : j \in {k - 1, k} \cap 1..(Len(s) - 1)}

\* how the code point that the code unit s[k] belongs to counts in the
\* context of a capital sigma
CaseClass(s, k) ==
  IF s[k] \in CaseIgnorable \/ \E p \in PairsAt(s, k) : p \in CaseIgnorablePairs
    THEN "ignorable"
  ELSE IF s[k] \in Cased \/ \E p \in PairsAt(s, k) : p \in CasedPairs
    THEN "cased"
  ELSE "other"

\* the condition Final_Sigma: the sigma at s[i] comes after a cased letter and
\* is not followed by one, case-ignorable characters being skipped
FinalSigma(s, i) ==
  LET class == [k \in 1..Len(s) |-> CaseClass(s, k)]
  IN /\ \E j \in 1..(i - 1) :
          /\ class[j] = "cased"
          /\ \A k \in (j + 1)..(i - 1) : class[k] = "ignorable"
     /\ ~\E j \in (i + 1)..Len(s) :
           /\ class[j] = "cased"
           /\ \A k \in (i + 1)..(j - 1) : class[k] = "ignorable"

\* the lower case of the code unit s[i]: LATIN CAPITAL LETTER I WITH DOT ABOVE
\* (U+0130) lowers to two code units, GREEK CAPITAL LETTER SIGMA (U+03A3) to
\* the final or the medial small sigma, a surrogate by the pair it is part of
LowerSeq(s, i) ==
  LET pairs == {j \in {i - 1, i} \cap 1..(Len(s) - 1) :
                  <<s[j], s[j + 1]>> \in HasLowerCasePair}
  IN IF s[i] \in AsciiUnchanged THEN <<s[i]>>
     ELSE IF LowerChar(s[i]) # s[i] THEN <<LowerChar(s[i])>>
     ELSE IF s[i] \in HasLowerCase THEN <<LowerCase[s[i]]>>
     ELSE IF s[i] = "U+0130" THEN <<"i", "U+0307">>
     ELSE IF s[i] = "U+03A3"
       THEN IF FinalSigma(s, i) THEN <<"U+03C2">> ELSE <<"U+03C3">>
     ELSE IF pairs # {}
       THEN LET j == CHOOSE j \in pairs : TRUE
            IN <<LowerCasePairs[<<s[j], s[j + 1]>>][i - j + 1]>>
     ELSE <<s[i]>>

RECURSIVE LowerFrom(_, _)
LowerFrom(s, i) ==
  IF i > Len(s) THEN <<>> ELSE LowerSeq(s, i) \o LowerFrom(s, i + 1)

\* String.prototype.toLowerCase
toLowerCase(s) == LowerFrom(s, 1)

\* String.prototype.trim
trim(s) ==
  IF \A i \in 1..Len(s) : IsWs(s[i]) THEN EMPTY
  ELSE LET first == CHOOSE i \in 1..Len(s) :
                      /\ ~IsWs(s[i])
                      /\ \A j \in 1..(i - 1) : IsWs(s[j])
           last  == CHOOSE i \in 1..Len(s) :
                      /\ ~IsWs(s[i])
                      /\ \A j \in (i + 1)..Len(s) : IsWs(s[j])
       IN SubSeq(s, first, last)

\* String.prototype.includes
includes(s, pat) ==
  \E i \in 1..(Len(s) - Len(pat) + 1) : SubSeq(s, i, i + Len(pat) - 1) = pat

\* s.split(/\s+/): the maximal runs of non-whitespace characters (s is
\* trimmed and non-empty wherever the code splits, so no empty piece arises)
WordStarts(s) ==
  {i \in 1..Len(s) : ~IsWs(s[i]) /\ (i = 1 \/ IsWs(s[i - 1]))}

WordAt(s, i) ==
  LET stop == CHOOSE j \in i..Len(s) :
                /\ \A k \in i..j : ~IsWs(s[k])
                /\ (j = Len(s) \/ IsWs(s[j + 1]))
  IN SubSeq(s, i, stop)

splitWs(s) == {WordAt(s, i) : i \in WordStarts(s)}

splitWsLength(s) == Cardinality(WordStarts(s))

\* JavaScript truthiness of a string-or-null value
Truthy(s) == s # NULL /\ s # EMPTY

\* Array membership of a string in a lexicon
InList(list, s) == \E i \in 1..Len(list) : list[i] = s

\* ------------------------------------------------------------------------
\* Lexicons
\* ------------------------------------------------------------------------
generic ==
  << <<"i", "m", "a", "g", "e">>,
     <<"p", "h", "o", "t", "o">>,
     <<"p", "i", "c", "t", "u", "r", "e">>,
     <<"i", "m", "g">>,
     <<"g", "r", "a", "p", "h", "i", "c">>,
     <<"i", "c", "o", "n">> >>

vaguePatterns ==
  << <<"c", "l", "i", "c", "k", " ", "h", "e", "r", "e">>,
     <<"h", "e", "r", "e">>,
     <<"r", "e", "a", "d", " ", "m", "o", "r", "e">>,
     <<"l", "e", "a", "r", "n", " ", "m", "o", "r", "e">>,
     <<"m", "o", "r", "e">>,
     <<"c", "o", "n", "t", "i", "n", "u", "e">>,
     <<"g", "o">>,
     <<"v", "i", "e", "w">>,
     <<"s", "e", "e">>,
     <<"c", "h", "e", "c", "k">>,
     <<"f", "i", "n", "d", " ", "o", "u", "t">>,
     <<"d", "i", "s", "c", "o", "v", "e", "r">>,
     <<"e", "x", "p", "l", "o", "r", "e">>,
     <<"d", "o", "w", "n", "l", "o", "a", "d">>,
     <<"g", "e", "t">>,
     <<"t", "r", "y">>,
     <<"s", "t", "a", "r", "t">>,
     <<"b", "e", "g", "i", "n">>,
     <<"n", "e", "x", "t">>,
     <<"p", "r", "e", "v", "i", "o", "u", "s">>,
     <<"b", "a", "c", "k">>,
     <<"f", "o", "r", "w", "a", "r", "d">>,
     <<"s", "u", "b", "m", "i", "t">>,
     <<"s", "e", "n", "d">>,
     <<"c", "o", "n", "t", "a", "c", "t">>,
     <<"c", "a", "l", "l">>,
     <<"e", "m", "a", "i", "l">>,
     <<"l", "i", "n", "k">>,
     <<"b", "u", "t", "t", "o", "n">>,
     <<"t", "h", "i", "s">>,
     <<"t", "h", "a", "t">>,
     <<"i", "t">>,
     <<"d", "e", "t", "a", "i", "l", "s">>,
     <<"i", "n", "f", "o">>,
     <<"p", "a", "g", "e">>,
     <<"s", "i", "t", "e">>,
     <<"w", "e", "b", "s", "i", "t", "e">>,
     <<"p", "o", "r", "t", "a", "l">>,
     <<"p", "l", "a", "t", "f", "o", "r", "m">>,
     <<"t", "o", "o", "l">> >>

descriptiveWords ==
  << <<"h", "o", "m", "e">>,
     <<"a", "b", "o", "u", "t">>,
     <<"c", "o", "n", "t", "a", "c", "t">>,
     <<"p", "r", "o", "d", "u", "c", "t", "s">>,
     <<"s", "e", "r", "v", "i", "c", "e", "s">>,
     <<"b", "l", "o", "g">>,
     <<"n", "e", "w", "s">>,
     <<"s", "u", "p", "p", "o", "r", "t">>,
     <<"h", "e", "l", "p">>,
     <<"d", "o", "c", "u", "m", "e", "n", "t", "a", "t", "i", "o", "n">>,
     <<"g", "u", "i", "d", "e">>,
     <<"t", "u", "t", "o", "r", "i", "a", "l">>,
     <<"p", "r", "i", "c", "i", "n", "g">>,
     <<"l", "o", "g", "i", "n">>,
     <<"s", "i", "g", "n", "u", "p">>,
     <<"r", "e", "g", "i", "s", "t", "e", "r">>,
     <<"p", "r", "o", "f", "i", "l", "e">>,
     <<"a", "c", "c", "o", "u", "n", "t">>,
     <<"d", "a", "s", "h", "b", "o", "a", "r", "d">>,
     <<"s", "e", "t", "t", "i", "n", "g", "s">>,
     <<"p", "r", "e", "f", "e", "r", "e", "n", "c", "e", "s">>,
     <<"c", "a", "r", "t">>,
     <<"c", "h", "e", "c", "k", "o", "u", "t">>,
     <<"o", "r", "d", "e", "r">>,
     <<"s", "e", "a", "r", "c", "h">> >>


\* ------------------------------------------------------------------------
\* Elements the document holds besides the nodes: targets of aria-labelledby
\* ------------------------------------------------------------------------
ID_TITLE == <<"t", "1">>

ID_BLANK == <<"t", "2">>

ID_GONE == <<"z", "z">>

\* document.getElementById(id).textContent, NULL when no element has the id
ElementTextById(id) ==
  IF id = ID_TITLE THEN <<"T", "i", "t", "l", "e">>
  ELSE IF id = ID_BLANK THEN <<" ">>
  ELSE NULL

\* ------------------------------------------------------------------------
\* Issue classifier: images
\* ------------------------------------------------------------------------
\* a generic-text test by containment instead of equality
isGenericAltText_Contains(text) ==
  \E i \in 1..Len(generic) : includes(trim(toLowerCase(text)), generic[i])

isGenericAltText(text) == InList(generic, trim(toLowerCase(text)))

HasValidLabelledBy(n) ==
  /\ Truthy(n.ariaLabelledBy)
  /\ ElementTextById(n.ariaLabelledBy) # NULL
  /\ trim(ElementTextById(n.ariaLabelledBy)) # EMPTY

\* needsAltText without its aria-label test: the variant against which C9 is
\* shown to depend on that test
needsAltText_NoAriaLabelTest(img) ==
  IF Truthy(img.alt) /\ trim(img.alt) # EMPTY /\ ~isGenericAltText(img.alt)
    THEN FALSE
  ELSE IF HasValidLabelledBy(img) THEN FALSE
  ELSE IF img.alt = EMPTY \/ img.role = <<"p","r","e","s","e","n","t","a","t","i","o","n">>
    THEN FALSE
  ELSE TRUE

needsAltText(img) ==
  IF Truthy(img.alt) /\ trim(img.alt) # EMPTY /\ ~isGenericAltText(img.alt)
    THEN FALSE
  ELSE IF /\ Truthy(img.ariaLabel) /\ trim(img.ariaLabel) # EMPTY
          /\ ~isGenericAltText(img.ariaLabel)
    THEN FALSE
  ELSE IF HasValidLabelledBy(img) THEN FALSE
  ELSE IF img.alt = EMPTY \/ img.role = <<"p","r","e","s","e","n","t","a","t","i","o","n">>
    THEN FALSE
  ELSE TRUE

hasExistingAltText(img) ==
  IF Truthy(img.alt) /\ trim(img.alt) # EMPTY /\ ~isGenericAltText(img.alt)
    THEN TRUE
  ELSE IF /\ Truthy(img.ariaLabel) /\ trim(img.ariaLabel) # EMPTY
          /\ ~isGenericAltText(img.ariaLabel)
    THEN TRUE
  ELSE FALSE

\* ------------------------------------------------------------------------
\* Issue classifier: form fields
\* ------------------------------------------------------------------------
NonLabelableTypes ==
  { <<"h","i","d","d","e","n">>, <<"s","u","b","m","i","t">>,
    <<"b","u","t","t","o","n">>, <<"r","e","s","e","t">> }

\* s.replace(pat, '') with a string pattern: the first occurrence of pat is
\* removed; the empty pattern matches at the start and removes nothing
replaceFirst(s, pat) ==
  IF pat = EMPTY \/ ~includes(s, pat) THEN s
  ELSE LET i == CHOOSE k \in 1..(Len(s) - Len(pat) + 1) :
                  /\ SubSeq(s, k, k + Len(pat) - 1) = pat
                  /\ \A j \in 1..(k - 1) : SubSeq(s, j, j + Len(pat) - 1) # pat
       IN SubSeq(s, 1, i - 1) \o SubSeq(s, i + Len(pat), Len(s))

\* the text content of the label element wrapping the input
\* (input.closest('label')): the text before the input, the text of the label
\* addGeneratedLabel has inserted right before the input, the text after the
\* input
WrapTextContent(input) ==
  input.wrapText
    \o (IF input.labelExists /\ input.labelInside THEN input.labelText ELSE EMPTY)
    \o input.wrapAfter

\* parentLabel.textContent.replace(input.value || '', ''), NULL when the input
\* is not inside a label
ParentLabelText(input) ==
  IF input.wrapText = NULL THEN NULL
  ELSE replaceFirst(WrapTextContent(input), input.value)

hasVisibleLabel(input) ==
  IF input.labelExists /\ trim(input.labelText) # EMPTY THEN TRUE
  ELSE IF ParentLabelText(input) # NULL /\ trim(ParentLabelText(input)) # EMPTY
    THEN TRUE
  ELSE FALSE

needsLabel(input) ==
  IF input.type \in NonLabelableTypes THEN FALSE
  ELSE IF hasVisibleLabel(input) THEN FALSE
  ELSE IF Truthy(input.ariaLabel) /\ trim(input.ariaLabel) # EMPTY THEN FALSE
  ELSE IF HasValidLabelledBy(input) THEN FALSE
  ELSE TRUE

\* the filter of analyzeAllFormFields
isAnalyzableInput(input) ==
  ~Truthy(input.type) \/ input.type \notin NonLabelableTypes

\* ------------------------------------------------------------------------
\* Issue classifier: links
\* ------------------------------------------------------------------------
getLinkText(link) ==
  LET t1 == link.text
      t2 == IF trim(t1) = EMPTY
            THEN (IF Truthy(link.ariaLabel) THEN link.ariaLabel ELSE EMPTY)
            ELSE t1
      t3 == IF trim(t2) = EMPTY
            THEN (IF Truthy(link.title) THEN link.title ELSE EMPTY)
            ELSE t2
  IN trim(t3)

isDescriptiveLinkText(text) ==
  LET lowerText == trim(toLowerCase(text))
  IN \/ \E i \in 1..Len(descriptiveWords) : includes(lowerText, descriptiveWords[i])
     \/ Len(text) > 15

\* a link filter without the rule for short texts
needsBetterLinkText_NoShortRule(link) ==
  LET linkText  == getLinkText(link)
      lowerText == trim(toLowerCase(linkText))
      isVague   == \E i \in 1..Len(vaguePatterns) : includes(lowerText, vaguePatterns[i])
  IN IF linkText = EMPTY \/ trim(linkText) = EMPTY THEN FALSE
     ELSE splitWsLength(lowerText) <= 3 /\ isVague

needsBetterLinkText(link) ==
  LET linkText  == getLinkText(link)
      lowerText == trim(toLowerCase(linkText))
      words     == splitWs(lowerText)
      isVague   == \E i \in 1..Len(vaguePatterns) :
                     \/ lowerText = vaguePatterns[i]
                     \/ includes(lowerText, vaguePatterns[i])
                     \/ \E w \in words : w = vaguePatterns[i]
  IN IF linkText = EMPTY \/ trim(linkText) = EMPTY THEN FALSE
     ELSE IF splitWsLength(lowerText) <= 3 /\ isVague THEN TRUE
     ELSE IF Len(linkText) <= 8 /\ ~isDescriptiveLinkText(linkText) THEN TRUE
     ELSE FALSE

\* ------------------------------------------------------------------------
\* Bounds of the model
\* ------------------------------------------------------------------------
\* the work the model follows: runs triggered times nodes in the document
MaxTasks == 2

Runs == 1..MaxTasks

Categories == {"Image", "FormField", "Link"}

\* ------------------------------------------------------------------------
\* Literals of the program
\* ------------------------------------------------------------------------
S_DecorativeImage ==
  <<"D", "e", "c", "o", "r", "a", "t", "i", "v", "e", " ", "i", "m", "a", "g", "e">>

S_Unavailable ==
  <<"A", "I", "-", "g", "e", "n", "e", "r", "a", "t", "e", "d", " ",
    "d", "e", "s", "c", "r", "i", "p", "t", "i", "o", "n", " ",
    "u", "n", "a", "v", "a", "i", "l", "a", "b", "l", "e">>

S_ImprovedFrom ==
  <<"A", "I", "-", "i", "m", "p", "r", "o", "v", "e", "d", " ", "f", "r", "o", "m", ":", " ", "\"">>

S_decorative == <<"d", "e", "c", "o", "r", "a", "t", "i", "v", "e">>

S_simple == <<"s", "i", "m", "p", "l", "e", "_", "i", "n", "f", "o", "r", "m", "a", "t", "i", "v", "e">>

S_true == <<"t", "r", "u", "e">>

S_text == <<"t", "e", "x", "t">>

S_hidden == <<"h", "i", "d", "d", "e", "n">>

\* the threshold below which generateAltText takes an image for decorative
SmallImage == 50

\* ------------------------------------------------------------------------
\* Values of a parsed payload: a string, NULL for a missing field, or a
\* number (a field of the wrong primitive type)
\* ------------------------------------------------------------------------
NUM7 == <<"<num>", "7">>

IsNum(v) == Len(v) >= 1 /\ v[1] = "<num>"

NUM0 == <<"<num>", "0">>

\* JavaScript truthiness of a payload value: undefined, null, the empty string
\* and the number 0 are falsy
JsTruthy(v) == v # NULL /\ v # EMPTY /\ v # NUM0

\* the string the DOM stores when a value is assigned to textContent or
\* passed to setAttribute
ToDomString(v) == IF IsNum(v) THEN Tail(v) ELSE v

\* ------------------------------------------------------------------------
\* The document: one record per node
\* ------------------------------------------------------------------------
Digits == <<"1", "2", "3", "4", "5", "6", "7", "8", "9">>

BlankNode ==
  [ cat |-> "Image", nid |-> 1, present |-> TRUE,
    alt |-> NULL, ariaLabel |-> NULL, ariaLabelledBy |-> NULL, role |-> NULL,
    title |-> NULL, naturalWidth |-> 100, naturalHeight |-> 100,
    type |-> NULL, id |-> EMPTY, placeholder |-> EMPTY, value |-> EMPTY,
    \* the label element around the input: its text before and after the
    \* input, wrapText NULL when there is none
    wrapText |-> NULL, wrapAfter |-> EMPTY,
    \* the label element for the input's id: whether it exists, its text,
    \* whether it carries data-ai-generated, whether it lies right before the
    \* input inside the label around it
    labelExists |-> FALSE, labelText |-> EMPTY, labelAi |-> FALSE,
    labelInside |-> FALSE,
    text |-> EMPTY, dataOriginalText |-> NULL, dataAiGenerated |-> NULL,
    aiStyled |-> FALSE, outline |-> "", classes |-> {} ]

ImgNoAlt == [BlankNode EXCEPT !.cat = "Image"]

ImgSmall == [BlankNode EXCEPT !.cat = "Image", !.naturalWidth = 20, !.naturalHeight = 20]

ImgGoodAlt == [BlankNode EXCEPT !.cat = "Image", !.alt = <<"A", " ", "c", "a", "t">>]

ImgGenericAlt == [BlankNode EXCEPT !.cat = "Image", !.alt = <<"I", "m", "a", "g", "e">>]

FldBare == [BlankNode EXCEPT !.cat = "FormField", !.type = S_text]

FldPlaceholder ==
  [BlankNode EXCEPT !.cat = "FormField", !.type = S_text,
                    !.placeholder = <<"E", "m", "a", "i", "l">>]

FldLabeled ==
  [BlankNode EXCEPT !.cat = "FormField", !.type = S_text, !.id = <<"f">>,
                    !.labelExists = TRUE, !.labelText = <<"N", "a", "m", "e">>]

FldAria ==
  [BlankNode EXCEPT !.cat = "FormField", !.type = S_text,
                    !.ariaLabel = <<"E", "m", "a", "i", "l">>]

\* a field whose author wrote a blank aria-label
FldBlankAria ==
  [BlankNode EXCEPT !.cat = "FormField", !.type = S_text, !.ariaLabel = <<" ">>]

FldHidden == [BlankNode EXCEPT !.cat = "FormField", !.type = S_hidden]

LnkVague ==
  [BlankNode EXCEPT !.cat = "Link", !.text = <<"c", "l", "i", "c", "k", " ", "h", "e", "r", "e">>]

LnkGood == [BlankNode EXCEPT !.cat = "Link", !.text = <<"P", "r", "i", "c", "i", "n", "g">>]

LnkIcon ==
  [BlankNode EXCEPT !.cat = "Link", !.text = EMPTY, !.ariaLabel = <<"h", "e", "r", "e">>]

\* a document made from a sequence of templates: ids are unique in the document
MakeDoc(ts) ==
  [n \in 1..Len(ts) |->
     [ts[n] EXCEPT !.nid = n,
                   !.id = IF ts[n].id = EMPTY THEN EMPTY ELSE ts[n].id \o <<Digits[n]>>]]

\* the documents the model starts from
InitialDocs ==
  { MakeDoc(<<ImgNoAlt>>), MakeDoc(<<ImgSmall>>), MakeDoc(<<ImgGoodAlt>>),
    MakeDoc(<<FldBare>>), MakeDoc(<<FldLabeled>>), MakeDoc(<<FldAria>>),
    MakeDoc(<<FldBlankAria>>), MakeDoc(<<FldHidden>>),
    MakeDoc(<<LnkVague>>), MakeDoc(<<LnkGood>>), MakeDoc(<<LnkIcon>>),
    MakeDoc(<<LnkVague, LnkVague>>), MakeDoc(<<ImgNoAlt, ImgGoodAlt>>),
    MakeDoc(<<LnkVague, FldBare>>) }

\* ------------------------------------------------------------------------
\* Responses of the inference service to one request
\* ------------------------------------------------------------------------
ErrorKinds == {"network", "http_status", "parse_failure"}

NoPayload ==
  [ kind |-> "payload", label |-> NULL, aria_label |-> NULL,
    suggested_text |-> NULL, classification |-> NULL, alt_text |-> NULL,
    score |-> 0, is_sufficient |-> FALSE,
    field_purpose |-> NULL, input_type |-> NULL, reasoning |-> NULL,
    current_text_analysis |-> NULL, link_purpose |-> NULL,
    improvement_reasoning |-> NULL ]

\* an answer to the generation request of a category that carries the
\* required fields of the schema that the code never reads
Answer(c) ==
  IF c = "Image" THEN [NoPayload EXCEPT !.reasoning = <<"r">>]
  ELSE IF c = "FormField"
    THEN [NoPayload EXCEPT !.field_purpose = <<"p">>, !.input_type = S_text]
  ELSE [NoPayload EXCEPT !.current_text_analysis = <<"a">>,
                         !.link_purpose = <<"p">>,
                         !.improvement_reasoning = <<"r">>]

ErrorResponses == {[NoPayload EXCEPT !.kind = k] : k \in ErrorKinds}

FormGenPayloads ==
  { [Answer("FormField") EXCEPT !.label = <<"F", "u", "l", "l", " ", "n", "a", "m", "e">>,
                      !.aria_label = <<"F", "u", "l", "l", " ", "n", "a", "m", "e">>],
    [Answer("FormField") EXCEPT !.aria_label = <<"F", "u", "l", "l", " ", "n", "a", "m", "e">>],
    [Answer("FormField") EXCEPT !.label = NUM7, !.aria_label = EMPTY],
    [Answer("FormField") EXCEPT !.label = EMPTY],
    \* label and aria_label without field_purpose and input_type
    [NoPayload EXCEPT !.label = <<"F", "u", "l", "l", " ", "n", "a", "m", "e">>, !.aria_label = <<"F", "u", "l", "l", " ", "n", "a", "m", "e">>] }

LinkGenPayloads ==
  { [Answer("Link") EXCEPT !.suggested_text = <<"R", "e", "a", "d", " ", "t", "h", "e", " ", "g", "u", "i", "d", "e">>,
                      !.aria_label = <<"R", "e", "a", "d", " ", "t", "h", "e", " ", "g", "u", "i", "d", "e">>],
    [Answer("Link") EXCEPT !.aria_label = <<"R", "e", "a", "d", " ", "t", "h", "e", " ", "g", "u", "i", "d", "e">>],
    [Answer("Link") EXCEPT !.suggested_text = <<"V", "i", "e", "w">>],
    \* suggested_text and aria_label without the three other required fields
    [NoPayload EXCEPT !.suggested_text = <<"R", "e", "a", "d", " ", "t", "h", "e", " ", "g", "u", "i", "d", "e">>, !.aria_label = <<"R", "e", "a", "d", " ", "t", "h", "e", " ", "g", "u", "i", "d", "e">>] }

ImageGenPayloads ==
  { [Answer("Image") EXCEPT !.classification = S_simple,
                      !.alt_text = <<" ", "A", " ", "d", "o", "g">>],
    [Answer("Image") EXCEPT !.classification = S_decorative,
                      !.alt_text = <<"A", " ", "d", "o", "g">>],
    [Answer("Image") EXCEPT !.classification = S_simple],
    [Answer("Image") EXCEPT !.classification = S_simple, !.alt_text = NUM7],
    \* a classification outside the enumeration of the schema
    [Answer("Image") EXCEPT !.classification = <<"b", "a", "n", "a", "n", "a">>,
                            !.alt_text = <<"A", " ", "d", "o", "g">>],
    \* classification and alt_text without reasoning
    [NoPayload EXCEPT !.classification = S_simple,
                      !.alt_text = <<"A", " ", "d", "o", "g">>] }

GenResponses(c) ==
  ErrorResponses \cup
    (IF c = "Image" THEN ImageGenPayloads
     ELSE IF c = "FormField" THEN FormGenPayloads
     ELSE LinkGenPayloads)

AnalysisPayloads(c) ==
  IF c = "Image"
  THEN {[NoPayload EXCEPT !.is_sufficient = b] : b \in BOOLEAN}
  ELSE {[NoPayload EXCEPT !.score = s] : s \in {9, 6, 3}}

AnalysisResponses(c) == ErrorResponses \cup AnalysisPayloads(c)

\* ------------------------------------------------------------------------
\* Capture renderer: the size of the canvas a capture function draws on
\* ------------------------------------------------------------------------
\* the largest side of an isolated image capture
MaxSize == 800

ContextMaxWidth == 800

ContextMaxHeight == 600

Min(a, b) == IF a < b THEN a ELSE b

Max(a, b) == IF a > b THEN a ELSE b

\* The ratio maxSize / m of "Resize large images" is a double: the quotient
\* rounded to 53 significant bits.  For m > maxSize the quotient lies in
\* [2^-j, 2^-j+1) with j = RatioExponent(m), and its 53 bits are the integer
\* part of maxSize * 2^(52+j) / m.
RatioExponent(m) ==
  CHOOSE j \in 1..20 :
    /\ m <= MaxSize * 2^j
    /\ j = 1 \/ m > MaxSize * 2^(j - 1)

RECURSIVE DoubleMod(_, _, _)
\* the remainder rem after n more steps of the long division by m
DoubleMod(rem, m, n) ==
  IF n = 0 THEN rem ELSE DoubleMod((2 * rem) % m, m, n - 1)

\* the remainder of the long division of maxSize by m after 52 steps, taken
\* thirteen steps at a time
Remainder52(m) ==
  LET step13(r) == (r * 8192) % m
  IN step13(step13(step13(step13(MaxSize % m))))

\* <<remainder, lowest bit>> of the 53-bit quotient of maxSize / m: the
\* division takes 52 + RatioExponent(m) steps
RatioRemainder(m) ==
  LET before == DoubleMod(Remainder52(m), m, RatioExponent(m) - 1)
  IN <<(2 * before) % m, IF 2 * before >= m THEN 1 ELSE 0>>

\* the double maxSize / m is below the exact quotient: round-to-nearest, ties
\* to even, dropped a remainder
RatioRoundsDown(m) ==
  LET q == RatioRemainder(m)
  IN q[1] > 0 /\ (2 * q[1] < m \/ (2 * q[1] = m /\ q[2] = 0))

\* the integer part of the double x * (maxSize / m), for m > maxSize the larger
\* side: where x * maxSize / m is an integer k, the product of the doubles is k
\* or the double right below k, according to the rounding of the ratio and of
\* the product
ScaleSide(x, m) ==
  LET k == (x * MaxSize) \div m
  IN IF (x * MaxSize) % m # 0 \/ k = 0 \/ ~RatioRoundsDown(m) THEN k
     ELSE LET j == RatioExponent(m)
              e == CHOOSE i \in 0..20 : 2^i <= k /\ k < 2^(i + 1)
              lost == x * RatioRemainder(m)[1] * (IF k = 2^e THEN 4 ELSE 2)
          IN IF lost > m * 2^(j + e) THEN k - 1 ELSE k

\* "Resize large images" of the onload handlers: both sides are multiplied by
\* Math.min(maxSize / width, maxSize / height), and the canvas keeps the
\* integer part
ScaleToMax(w, h) ==
  IF w > MaxSize \/ h > MaxSize
  THEN [width |-> ScaleSide(w, Max(w, h)), height |-> ScaleSide(h, Max(w, h))]
  ELSE [width |-> w, height |-> h]

\* the value the width or height of a canvas takes when v is assigned to it:
\* the attribute reflects an unsigned long, a negative number gives the
\* default of the attribute
CanvasLength(v, default) == IF v < 0 THEN default ELSE v

IsolatedFns ==
  {"captureImageOnly", "captureSVGAsBase64", "captureInputField", "captureLinkElement"}

ContextFns ==
  {"captureImageWithContext", "captureSVGContextAsBase64",
   "captureInputWithContext", "captureLinkWithContext"}

\* the functions that resolve in the call itself
SyncFns ==
  {"captureInputField", "captureLinkElement",
   "captureInputWithContext", "captureLinkWithContext"}

SvgFns == {"captureSVGAsBase64", "captureSVGContextAsBase64"}

\* width and height of the canvas whose data URL the call resolves with; g
\* holds the natural size of the media, the bounding rectangle of the element
\* and the size of the viewport; kind is "image" when the media was drawn and
\* "placeholder" when the fallback was
CanvasSize(fn, g, kind) ==
  IF fn = "captureImageOnly"
    THEN IF kind = "image" THEN ScaleToMax(g.natW, g.natH)
         ELSE [width |-> 400, height |-> 300]
  ELSE IF fn = "captureSVGAsBase64"
    THEN IF kind = "image"
         THEN ScaleToMax(IF g.natW = 0 THEN 200 ELSE g.natW,
                         IF g.natH = 0 THEN 200 ELSE g.natH)
         ELSE [width |-> 400, height |-> 300]
  ELSE IF fn = "captureImageWithContext"
    THEN LET twoMargins == 3 * Max(g.rectW, g.rectH)
         IN [width |-> Min(ContextMaxWidth, Min(g.viewW, g.rectW + twoMargins)),
             height |-> Min(ContextMaxHeight, Min(g.viewH, g.rectH + twoMargins))]
  ELSE IF fn = "captureSVGContextAsBase64"
    THEN [width |-> CanvasLength(Min(ContextMaxWidth,
                                     Min(g.viewW - g.left + 100, g.rectW + 200)), 300),
          height |-> CanvasLength(Min(ContextMaxHeight,
                                      Min(g.viewH - g.top + 100, g.rectH + 200)), 150)]
  ELSE IF fn = "captureInputField"
    THEN [width |-> Max(200, g.rectW + 20), height |-> Max(50, g.rectH + 20)]
  ELSE IF fn = "captureLinkElement"
    THEN [width |-> Max(200, g.rectW + 20), height |-> Max(40, g.rectH + 20)]
  ELSE [width |-> Min(ContextMaxWidth, Min(g.viewW, g.rectW + 300)),
        height |-> Min(ContextMaxHeight, Min(g.viewH, g.rectH + 300))]

\* sizes the capture functions read: natural size of the media, bounding
\* rectangle of the element, viewport
Geometry(natW, natH, rectW, rectH, left, top, viewW, viewH) ==
  [natW |-> natW, natH |-> natH, rectW |-> rectW, rectH |-> rectH,
   left |-> left, top |-> top, viewW |-> viewW, viewH |-> viewH]

Geometries ==
  { Geometry(100, 100, 100, 100, 0, 0, 1280, 720),
    Geometry(1600, 1200, 1000, 750, 100, 50, 1280, 720),
    Geometry(800, 800, 400, 400, 0, 200, 2560, 1440),
    Geometry(0, 0, 1000, 30, 20, 20, 1280, 720),
    Geometry(801, 1078, 640, 480, 100, 2000, 1280, 720) }

NoResult == [st |-> "pending", kind |-> "none", width |-> 0, height |-> 0]

\* a capture function that has not been called
NoCapture ==
  [fn |-> "captureImageOnly", geo |-> Geometry(100, 100, 100, 100, 0, 0, 1280, 720),
   crossOrigin |-> FALSE, inline |-> FALSE, stage |-> "idle",
   img |-> "none", img2 |-> "none", fetch |-> "none",
   retry |-> "none", ultimate |-> "none", tainted |-> FALSE, result |-> NoResult]

\* ------------------------------------------------------------------------
\* State
\* ------------------------------------------------------------------------
VARIABLES
  isEnabled,   \* the content script's flag
  stored,      \* chrome.storage.sync 'enabled': "absent", "true" or "false"
  loaded,      \* whether the storage callback of the content script has run
  doc,         \* the document: node -> record
  numRuns,     \* runs triggered so far
  phase,       \* run -> category -> phase of the run for that category
  gen,         \* run -> node -> the generation task launched for the node
  ana,         \* run -> node -> the analysis task launched for the node
  timers,      \* the pending setTimeout callbacks, in order of registration
  doc0,        \* the document as the page's author wrote it (never modified)
  probe,       \* a node handed to the classifier on its own
  verdict,     \* what the classifier answered for the probe
  response,    \* the inference response handed to the generation task of the probe
  applied,     \* the probe after its generation task
  cap,         \* one call of a capture function: its events, timers and result
  popup, \* the popup page: its session, the button and what it stored and sent
  ctx    \* the page-derived text of one inference request: its sources and lengths

pipeVars == <<isEnabled, stored, loaded, doc, numRuns, phase, gen, ana, timers, doc0>>

\* the variables of the single-node specifications
unitVars == <<probe, verdict, response, applied, cap, popup, ctx>>

vars == <<isEnabled, stored, loaded, doc, numRuns, phase, gen, ana, timers, doc0,
          probe, verdict, response, applied, cap, popup, ctx>>

Nodes == DOMAIN doc

\* st:  "none" | "capture" | "fetch" | "ok" | "fail"  ("ok", "fail": settled;
\*      for a generation task they are the success flag of its outcome)
\* ind: text of the task's loading indicator, "none" before it is created,
\*      "removed" once it left the document
\* tip: the analysis tooltip of the task: "none" | "shown" | "removed"
\* sent counts the inference requests (calls of fetch) the task has made
NoTask == [st |-> "none", ind |-> "none", tip |-> "none", sent |-> 0]

Settled(t) == t.st \in {"ok", "fail"}

InFlight(t) == t.st \in {"capture", "fetch"}

\* a pending timer: kind "settle" (of run r, category c), "gen" or "ana" (the
\* indicator timer of the task of run r on node n), "tip" (tooltip removal)
Timer(kind, r, n, c, delay) ==
  [kind |-> kind, r |-> r, n |-> n, c |-> c, delay |-> delay]

\* Timers expire in the order of their expiry times: a timer registered
\* earlier with a delay that is not longer fires first.
CanFire(i) ==
  /\ i \in 1..Len(timers)
  /\ \A j \in 1..(i - 1) : timers[j].delay > timers[i].delay

RemoveAt(s, i) == SubSeq(s, 1, i - 1) \o SubSeq(s, i + 1, Len(s))

HighlightClass(c) ==
  IF c = "Image" THEN "ai-alt-highlight"
  ELSE IF c = "FormField" THEN "ai-form-highlight"
  ELSE "ai-link-highlight"

AnalysisClass(c) ==
  IF c = "Image" THEN "ai-alt-analysis"
  ELSE IF c = "FormField" THEN "ai-form-analysis"
  ELSE "ai-link-analysis"

\* the filter that selects the nodes of the generation fan-out
NeedsGeneration(n) ==
  IF n.cat = "Image" THEN needsAltText(n)
  ELSE IF n.cat = "FormField" THEN needsLabel(n)
  ELSE needsBetterLinkText(n)

\* the filter that selects the nodes of the analysis fan-out
NeedsAnalysis(n) ==
  IF n.cat = "Image" THEN hasExistingAltText(n)
  ELSE IF n.cat = "FormField" THEN isAnalyzableInput(n)
  ELSE FALSE

\* document.querySelectorAll of a category's selector: the nodes in the document
QueryAll(d, c) == {n \in DOMAIN d : d[n].cat = c /\ d[n].present}

IsSmallImage(img) ==
  img.naturalWidth < SmallImage \/ img.naturalHeight < SmallImage

\* ------------------------------------------------------------------------
\* Remediation applier
\* ------------------------------------------------------------------------
GeneratedId(input) == <<"a", "i", "-", Digits[input.nid]>>

addGeneratedLabel(input, labelText) ==
  IF ~input.labelExists
  THEN [input EXCEPT !.id = IF input.id = EMPTY THEN GeneratedId(input) ELSE @,
                     !.labelExists = TRUE,
                     !.labelText = ToDomString(labelText),
                     !.labelAi = TRUE,
                     !.labelInside = (input.wrapText # NULL)]
  ELSE [input EXCEPT !.labelText = ToDomString(labelText), !.labelAi = TRUE]

\* the apply step as an either-or: the aria-label is set only when no label
\* was inserted; the variant against which C10 is shown to depend on the two
\* independent conditionals of the apply step
ApplyFormField_EitherOr(input, result) ==
  LET n1 == IF JsTruthy(result.label) /\ ~hasVisibleLabel(input)
            THEN addGeneratedLabel(input, result.label) ELSE input
      n2 == IF JsTruthy(result.aria_label) /\ ~Truthy(n1.ariaLabel) /\ n1 = input
            THEN [n1 EXCEPT !.ariaLabel = ToDomString(result.aria_label)] ELSE n1
  IN [n2 EXCEPT !.outline = "green"]

\* the try block of a form field's generation task after the inference call
ApplyFormField(input, result) ==
  LET n1 == IF JsTruthy(result.label) /\ ~hasVisibleLabel(input)
            THEN addGeneratedLabel(input, result.label) ELSE input
      n2 == IF JsTruthy(result.aria_label) /\ ~Truthy(n1.ariaLabel)
            THEN [n1 EXCEPT !.ariaLabel = ToDomString(result.aria_label)] ELSE n1
  IN [n2 EXCEPT !.outline = "green"]

\* addGeneratedLinkText keeping the text content instead of the link's text
addGeneratedLinkText_StoresTextContent(link, newText) ==
  LET originalText == link.text
  IN [link EXCEPT !.dataOriginalText = originalText,
                  !.text = ToDomString(newText),
                  !.aiStyled = TRUE,
                  !.dataAiGenerated = S_true,
                  !.title = S_ImprovedFrom \o originalText \o <<"\"">>]

addGeneratedLinkText(link, newText) ==
  LET originalText == getLinkText(link)
  IN [link EXCEPT !.dataOriginalText = originalText,
                  !.text = ToDomString(newText),
                  !.aiStyled = TRUE,
                  !.dataAiGenerated = S_true,
                  !.title = S_ImprovedFrom \o originalText \o <<"\"">>]

\* the try block of a link's generation task after the inference call
ApplyLink(link, result) ==
  LET n1 == IF JsTruthy(result.suggested_text)
            THEN addGeneratedLinkText(link, result.suggested_text) ELSE link
      n2 == IF JsTruthy(result.aria_label) /\ ~Truthy(n1.ariaLabel)
            THEN [n1 EXCEPT !.ariaLabel = ToDomString(result.aria_label)] ELSE n1
  IN [n2 EXCEPT !.outline = "green"]

\* generateAltText without its test of the classification: the variant against
\* which C12 is shown to depend on that test
generateAltText_NoDecorativeTest(img, resp) ==
  IF resp.kind # "payload" THEN S_Unavailable
  ELSE LET altText == IF JsTruthy(resp.alt_text) THEN resp.alt_text ELSE EMPTY
       IN IF altText = EMPTY THEN EMPTY
          ELSE IF IsNum(altText) THEN S_Unavailable
          ELSE trim(altText)

\* the value generateAltText resolves with once the service answered
generateAltText(img, resp) ==
  IF resp.kind # "payload" THEN S_Unavailable
  ELSE LET altText == IF JsTruthy(resp.alt_text) THEN resp.alt_text ELSE EMPTY
       IN IF resp.classification = S_decorative \/ altText = EMPTY THEN EMPTY
          ELSE IF IsNum(altText) THEN S_Unavailable
          ELSE trim(altText)

\* the try block of an image's generation task
ApplyImage(img, altText) ==
  [img EXCEPT !.alt = altText, !.outline = "green"]

\* whether the inference call of a generation task throws into the task
GenThrows(c, resp) == c # "Image" /\ resp.kind # "payload"

ApplyResult(node, resp) ==
  IF node.cat = "Image" THEN ApplyImage(node, generateAltText(node, resp))
  ELSE IF node.cat = "FormField" THEN ApplyFormField(node, resp)
  ELSE ApplyLink(node, resp)

\* the catch block of a generation task
MarkFailed(node) == [node EXCEPT !.outline = "red"]

\* ------------------------------------------------------------------------
\* Teardown
\* ------------------------------------------------------------------------
removeHighlights(d) ==
  [n \in DOMAIN d |->
     IF d[n].present /\ d[n].classes \cap {"ai-alt-highlight", "ai-alt-analysis"} # {}
     THEN [d[n] EXCEPT !.outline = "",
                       !.classes = @ \ {"ai-alt-highlight", "ai-alt-analysis"}]
     ELSE d[n]]

removeFormHighlights(d) ==
  LET d1 == [n \in DOMAIN d |->
               IF d[n].present /\ d[n].classes \cap {"ai-form-highlight", "ai-form-analysis"} # {}
               THEN [d[n] EXCEPT !.outline = "",
                                 !.classes = @ \ {"ai-form-highlight", "ai-form-analysis"}]
               ELSE d[n]]
  IN \* every element carrying data-ai-generated="true" is removed from the
     \* document: generated labels, and the nodes that carry the attribute
     [n \in DOMAIN d |->
        LET e1 == IF d1[n].labelExists /\ d1[n].labelAi
                  THEN [d1[n] EXCEPT !.labelExists = FALSE, !.labelText = EMPTY,
                                     !.labelAi = FALSE, !.labelInside = FALSE]
                  ELSE d1[n]
        IN IF e1.present /\ e1.dataAiGenerated = S_true
           THEN [e1 EXCEPT !.present = FALSE] ELSE e1]

removeLinkHighlights(d) ==
  LET d1 == [n \in DOMAIN d |->
               IF d[n].present /\ d[n].classes \cap {"ai-link-highlight", "ai-link-analysis"} # {}
               THEN [d[n] EXCEPT !.outline = "",
                                 !.classes = @ \ {"ai-link-highlight", "ai-link-analysis"},
                                 !.aiStyled = IF Truthy(d[n].dataAiGenerated) THEN FALSE ELSE @]
               ELSE d[n]]
  IN [n \in DOMAIN d |->
        IF d1[n].present /\ d1[n].dataAiGenerated = S_true
        THEN [d1[n] EXCEPT !.text = IF Truthy(d1[n].dataOriginalText)
                                    THEN d1[n].dataOriginalText ELSE @,
                           !.dataAiGenerated = NULL,
                           !.dataOriginalText = NULL,
                           !.title = NULL]
        ELSE d1[n]]

\* the tooltips in the document are removed (their timers stay pending)
RemoveTooltips(a) ==
  [r \in DOMAIN a |-> [n \in DOMAIN a[r] |->
     IF a[r][n].tip = "shown" THEN [a[r][n] EXCEPT !.tip = "removed"] ELSE a[r][n]]]

\* the else branch of the toggle listener
Teardown ==
  /\ doc' = removeLinkHighlights(removeFormHighlights(removeHighlights(doc)))
  /\ ana' = RemoveTooltips(ana)
  /\ UNCHANGED <<numRuns, phase, gen, timers>>

\* ------------------------------------------------------------------------
\* Pipeline orchestrator
\* ------------------------------------------------------------------------
\* the nodes a run's generation fan-out is launched for
GenEligible(d) == {n \in DOMAIN d : d[n].present /\ NeedsGeneration(d[n])}

\* the document after the synchronous part of the three highlight functions
\* and the microtasks that follow it: every eligible node is marked, and an
\* image below the size threshold has its task completed at once
LaunchDoc(d) ==
  [n \in DOMAIN d |->
     IF n \notin GenEligible(d) THEN d[n]
     ELSE IF d[n].cat = "Image" /\ IsSmallImage(d[n])
       THEN [d[n] EXCEPT !.alt = S_DecorativeImage, !.outline = "green",
                         !.classes = @ \cup {HighlightClass(d[n].cat)}]
     ELSE [d[n] EXCEPT !.outline = "orange",
                       !.classes = @ \cup {HighlightClass(d[n].cat)}]]

\* a fan-out capped at one task: only the first eligible node is launched
LaunchTasks_OneAtATime(d) ==
  [n \in DOMAIN d |->
     IF n \notin GenEligible(d) \/ \E m \in GenEligible(d) : m < n THEN NoTask
     ELSE IF d[n].cat = "Image" /\ IsSmallImage(d[n])
       THEN [NoTask EXCEPT !.st = "ok", !.ind = "added"]
     ELSE IF d[n].cat = "Image"
       THEN [NoTask EXCEPT !.st = "capture", !.ind = "generating"]
     ELSE [NoTask EXCEPT !.st = "fetch", !.ind = "generating", !.sent = 1]]

LaunchTasks(d) ==
  [n \in DOMAIN d |->
     IF n \notin GenEligible(d) THEN NoTask
     ELSE IF d[n].cat = "Image" /\ IsSmallImage(d[n])
       THEN [NoTask EXCEPT !.st = "ok", !.ind = "added"]
     ELSE IF d[n].cat = "Image"
       THEN [NoTask EXCEPT !.st = "capture", !.ind = "generating"]
     ELSE [NoTask EXCEPT !.st = "fetch", !.ind = "generating", !.sent = 1]]

\* Promise.all of a fan-out has resolved
AllSettled(tasks, c) ==
  \A n \in Nodes : doc[n].cat = c => ~InFlight(tasks[n])

CategoryOrder == <<"Image", "FormField", "Link">>

\* the settling timers a trigger registers at once: those of the categories
\* whose fan-out is empty, then the one of the images when all are small
LaunchSettleTimers(r, tasks) ==
  LET F(c) == IF AllSettled(tasks, c) /\ \A n \in Nodes : doc[n].cat = c => tasks[n].st = "none"
              THEN <<Timer("settle", r, 0, c, 1000)>> ELSE <<>>
      G(c) == IF AllSettled(tasks, c) /\ \E n \in Nodes : doc[n].cat = c /\ tasks[n].st # "none"
              THEN <<Timer("settle", r, 0, c, 1000)>> ELSE <<>>
  IN F(CategoryOrder[1]) \o F(CategoryOrder[2]) \o F(CategoryOrder[3])
       \o G(CategoryOrder[1]) \o G(CategoryOrder[2]) \o G(CategoryOrder[3])

\* the indicator timers of the tasks a trigger completes at once
LaunchGenTimers(r, tasks) ==
  LET F(n) == IF n \in Nodes /\ tasks[n].st = "ok"
              THEN <<Timer("gen", r, n, doc[n].cat, 2000)>> ELSE <<>>
      RECURSIVE All(_)
      All(n) == IF n > Cardinality(Nodes) THEN <<>> ELSE F(n) \o All(n + 1)
  IN All(1)

\* highlightImages(); highlightFormFields(); highlightLinks()
StartRuns ==
  /\ (numRuns + 1) * Cardinality(Nodes) <= MaxTasks
  /\ LET r == numRuns + 1
         tasks == LaunchTasks(doc)
     IN /\ numRuns' = r
        /\ doc' = LaunchDoc(doc)
        /\ gen' = [gen EXCEPT ![r] = tasks]
        /\ phase' = [phase EXCEPT ![r] =
                       [c \in Categories |->
                          IF AllSettled(tasks, c) THEN "settling" ELSE "gen"]]
        /\ timers' = timers \o LaunchSettleTimers(r, tasks) \o LaunchGenTimers(r, tasks)
        /\ UNCHANGED ana

\* a storage callback that would start the runs whatever the stored flag
Load_IgnoresFlag ==
  /\ ~loaded
  /\ loaded' = TRUE
  /\ isEnabled' = (stored # "false")
  /\ StartRuns
  /\ UNCHANGED <<stored, doc0, unitVars>>

\* the callback of chrome.storage.sync.get at load
Load ==
  /\ ~loaded
  /\ loaded' = TRUE
  /\ isEnabled' = (stored # "false")
  /\ IF stored # "false" THEN StartRuns
     ELSE UNCHANGED <<doc, numRuns, phase, gen, ana, timers>>
  /\ UNCHANGED <<stored, doc0, unitVars>>

\* the chrome.runtime.onMessage listener receiving {action: 'toggle', enabled}.
\* The listener is registered when the script is evaluated: a message can be
\* delivered before the storage callback of the load has run.
Toggle(enabled) ==
  /\ isEnabled' = enabled
  /\ IF enabled THEN StartRuns ELSE Teardown
  /\ UNCHANGED <<stored, loaded, doc0, unitVars>>

\* both captures of an image's generation task have resolved: the request is sent
GenCaptureDone(r, n) ==
  /\ gen[r][n].st = "capture"
  /\ gen' = [gen EXCEPT ![r][n].st = "fetch", ![r][n].sent = @ + 1]
  /\ UNCHANGED <<doc0, unitVars, isEnabled, stored, loaded, doc, numRuns, phase, ana, timers>>

\* a generation task that would send its request again after a failure
GenResolve_RetryOnError(r, n, resp) ==
  /\ gen[r][n].st = "fetch"
  /\ resp \in GenResponses(doc[n].cat)
  /\ LET c == doc[n].cat
         throws == GenThrows(c, resp)
         tasks == [gen[r] EXCEPT ![n] =
                     IF throws THEN [@ EXCEPT !.sent = @ + 1]
                     ELSE [@ EXCEPT !.st = "ok", !.ind = "added"]]
     IN /\ doc' = [doc EXCEPT ![n] = IF throws THEN @ ELSE ApplyResult(@, resp)]
        /\ gen' = [gen EXCEPT ![r] = tasks]
        /\ phase' = IF AllSettled(tasks, c)
                    THEN [phase EXCEPT ![r][c] = "settling"] ELSE phase
        /\ timers' = timers
                       \o (IF AllSettled(tasks, c)
                           THEN <<Timer("settle", r, 0, c, 1000)>> ELSE <<>>)
                       \o (IF throws THEN <<>> ELSE <<Timer("gen", r, n, c, 2000)>>)
  /\ UNCHANGED <<doc0, unitVars, isEnabled, stored, loaded, numRuns, ana>>

\* the inference call of a generation task has resolved or rejected
GenResolve(r, n, resp) ==
  /\ gen[r][n].st = "fetch"
  /\ resp \in GenResponses(doc[n].cat)
  /\ LET c == doc[n].cat
         throws == GenThrows(c, resp)
         tasks == [gen[r] EXCEPT ![n] =
                     [@ EXCEPT !.st = IF throws THEN "fail" ELSE "ok",
                               !.ind = IF throws THEN "failed" ELSE "added"]]
     IN /\ doc' = [doc EXCEPT ![n] = IF throws THEN MarkFailed(@)
                                     ELSE ApplyResult(@, resp)]
        /\ gen' = [gen EXCEPT ![r] = tasks]
        /\ phase' = IF AllSettled(tasks, c)
                    THEN [phase EXCEPT ![r][c] = "settling"] ELSE phase
        /\ timers' = timers
                       \o (IF AllSettled(tasks, c)
                           THEN <<Timer("settle", r, 0, c, 1000)>> ELSE <<>>)
                       \o <<Timer("gen", r, n, c, 2000)>>
  /\ UNCHANGED <<doc0, unitVars, isEnabled, stored, loaded, numRuns, ana>>

\* the 2000 ms timer of a settled generation task
GenTimer(i) ==
  /\ CanFire(i)
  /\ timers[i].kind = "gen"
  /\ LET r == timers[i].r
         n == timers[i].n
     IN /\ gen' = [gen EXCEPT ![r][n].ind = "removed"]
        /\ doc' = IF gen[r][n].st = "ok" THEN [doc EXCEPT ![n].outline = ""] ELSE doc
  /\ timers' = RemoveAt(timers, i)
  /\ UNCHANGED <<doc0, unitVars, isEnabled, stored, loaded, numRuns, phase, ana>>

\* analysis fan-out that would reuse the classification of the run-start document
AnaEligible_AtRunStart(d, c) == {n \in QueryAll(d, c) : NeedsAnalysis(doc0[n])}

\* the nodes analyzeAllImages / analyzeAllFormFields launch a task for
AnaEligible(d, c) == {n \in QueryAll(d, c) : NeedsAnalysis(d[n])}

\* the 1000 ms settling timer of a run: the analysis fan-out is launched.
\* highlightLinks calls analyzeAllLinks, which the script does not define:
\* the callback throws a ReferenceError and no link analysis is launched.
SettleTimer(i) ==
  /\ CanFire(i)
  /\ timers[i].kind = "settle"
  /\ LET r == timers[i].r
         c == timers[i].c
         todo == AnaEligible(doc, c)
     IN IF c = "Link"
        THEN /\ phase' = [phase EXCEPT ![r][c] = "aborted"]
             /\ UNCHANGED <<doc, ana>>
        ELSE /\ doc' = [n \in Nodes |->
                          IF n \in todo
                          THEN [doc[n] EXCEPT !.outline = "blue",
                                              !.classes = @ \cup {AnalysisClass(c)}]
                          ELSE doc[n]]
             /\ ana' = [ana EXCEPT ![r] = [n \in Nodes |->
                          IF n \in todo
                          THEN [NoTask EXCEPT !.st = IF c = "Image" THEN "capture" ELSE "fetch",
                                              !.sent = IF c = "Image" THEN 0 ELSE 1,
                                              !.ind = "analyzing"]
                          ELSE ana[r][n]]]
             /\ phase' = [phase EXCEPT ![r][c] = IF todo = {} THEN "done" ELSE "analysis"]
  /\ timers' = RemoveAt(timers, i)
  /\ UNCHANGED <<doc0, unitVars, isEnabled, stored, loaded, numRuns, gen>>

\* both captures of an image's analysis task have resolved: the request is sent
AnaCaptureDone(r, n) ==
  /\ ana[r][n].st = "capture"
  /\ ana' = [ana EXCEPT ![r][n].st = "fetch", ![r][n].sent = @ + 1]
  /\ UNCHANGED <<doc0, unitVars, isEnabled, stored, loaded, doc, numRuns, phase, gen, timers>>

\* the outline an analysis result gives the node
AnalysisOutline(c, resp) ==
  IF c = "Image" THEN (IF resp.is_sufficient THEN "darkgreen" ELSE "orange")
  ELSE IF resp.score >= 8 THEN "darkgreen"
  ELSE IF resp.score >= 5 THEN "orange"
  ELSE "red"

AnalysisMessage(c, resp) ==
  IF c = "Image" THEN (IF resp.is_sufficient THEN "good" ELSE "improve")
  ELSE IF resp.score >= 8 THEN "good"
  ELSE IF resp.score >= 5 THEN "improve"
  ELSE "poor"

\* the inference call of an analysis task has resolved or rejected
AnaResolve(r, n, resp) ==
  /\ ana[r][n].st = "fetch"
  /\ resp \in AnalysisResponses(doc[n].cat)
  /\ LET c == doc[n].cat
         throws == resp.kind # "payload"
         tasks == [ana[r] EXCEPT ![n] =
                     IF throws
                     THEN [@ EXCEPT !.st = "fail", !.ind = "failed"]
                     ELSE [@ EXCEPT !.st = "ok", !.ind = AnalysisMessage(c, resp),
                                    !.tip = "shown"]]
     IN /\ doc' = [doc EXCEPT ![n].outline = IF throws THEN "red"
                                             ELSE AnalysisOutline(c, resp)]
        /\ ana' = [ana EXCEPT ![r] = tasks]
        /\ phase' = IF AllSettled(tasks, c)
                    THEN [phase EXCEPT ![r][c] = "done"] ELSE phase
        /\ timers' = timers \o
                       (IF throws THEN <<Timer("ana", r, n, c, 2000)>>
                        ELSE <<Timer("ana", r, n, c, 3000), Timer("tip", r, n, c, 12000)>>)
  /\ UNCHANGED <<doc0, unitVars, isEnabled, stored, loaded, numRuns, gen>>

\* the 3000 ms (2000 ms after a failure) timer of a settled analysis task
AnaTimer(i) ==
  /\ CanFire(i)
  /\ timers[i].kind = "ana"
  /\ LET r == timers[i].r
         n == timers[i].n
     IN /\ ana' = [ana EXCEPT ![r][n].ind = "removed"]
        /\ doc' = IF ana[r][n].st = "ok" THEN [doc EXCEPT ![n].outline = ""] ELSE doc
  /\ timers' = RemoveAt(timers, i)
  /\ UNCHANGED <<doc0, unitVars, isEnabled, stored, loaded, numRuns, phase, gen>>

\* the 12000 ms timer of an analysis tooltip
TipTimer(i) ==
  /\ CanFire(i)
  /\ timers[i].kind = "tip"
  /\ LET r == timers[i].r
         n == timers[i].n
     IN ana' = [ana EXCEPT ![r][n].tip = IF @ = "shown" THEN "removed" ELSE @]
  /\ timers' = RemoveAt(timers, i)
  /\ UNCHANGED <<doc0, unitVars, isEnabled, stored, loaded, doc, numRuns, phase, gen>>

\* ------------------------------------------------------------------------
\* Specification
\* ------------------------------------------------------------------------
\* sent: the request of the task under study is in flight; done: the task has
\* ended and the two filters have been applied to its result
NoVerdict ==
  [sent |-> FALSE, done |-> FALSE, needsGeneration |-> FALSE, needsAnalysis |-> FALSE]

\* the popup page before it is opened: no session, nothing stored or sent.
\* pending holds the values of the clicks whose storage.set has not resolved,
\* queries those whose tabs.query has not resolved, sent the values sent by
\* the current session, messages every toggle message the tab was sent since
\* the page was loaded
NoPopup ==
  [ open |-> FALSE, ready |-> FALSE, isEnabled |-> TRUE, label |-> "",
    pending |-> <<>>, queries |-> <<>>, sent |-> <<>>, messages |-> <<>> ]

\* a text the document does not have (querySelector or getAttribute gave null)
Absent == -1

\* the page-derived text of a request before the request is built: texts are
\* represented by their lengths in characters
NoContext ==
  [ kind |-> "FormGeneration", built |-> FALSE,
    \* the page
    title |-> 0, meta |-> Absent, h1 |-> Absent, section |-> Absent,
    hasForm |-> FALSE, hasProduct |-> FALSE, hasArticle |-> FALSE, hasNav |-> FALSE,
    \* the form field
    typeLen |-> 4, isSelect |-> FALSE, required |-> FALSE, pattern |-> 0,
    maxLength |-> -1, inForm |-> FALSE, position |-> 1, formSize |-> 1,
    legend |-> Absent, prevLabel |-> 0, nOptions |-> 0, optionLen |-> 0,
    \* around the image
    parentText |-> 0, buttonText |-> 0, caption |-> Absent, description |-> Absent,
    \* the link
    tagLen |-> 1, target |-> 0, download |-> FALSE, inNav |-> FALSE,
    inHeader |-> FALSE, inFooter |-> FALSE, inMain |-> FALSE,
    insideButton |-> FALSE, listItems |-> Absent, prevLink |-> 0,
    href |-> "none", hrefLen |-> 0, hostLen |-> 0, path |-> 0, search |-> 0,
    hash |-> 0, fileExt |-> 0, onclick |-> 0, dataHref |-> 0,
    \* the results
    page |-> 0, input |-> 0, surrounding |-> 0, link |-> 0, destination |-> 0,
    request |-> 0 ]

InitPipeline(docs) ==
  /\ isEnabled = TRUE
  /\ stored \in {"absent", "true", "false"}
  /\ loaded = FALSE
  /\ doc \in docs
  /\ doc0 = doc
  /\ numRuns = 0
  /\ phase = [r \in Runs |-> [c \in Categories |-> "idle"]]
  /\ gen = [r \in Runs |-> [n \in DOMAIN doc |-> NoTask]]
  /\ ana = [r \in Runs |-> [n \in DOMAIN doc |-> NoTask]]
  /\ timers = <<>>

Init ==
  /\ InitPipeline(InitialDocs)
  /\ probe = BlankNode
  /\ verdict = NoVerdict
  /\ response = NoPayload
  /\ applied = BlankNode
  /\ cap = NoCapture
  /\ popup = NoPopup
  /\ ctx = NoContext

Next ==
  \/ Load
  \/ \E enabled \in BOOLEAN : Toggle(enabled)
  \/ \E r \in Runs, n \in Nodes : GenCaptureDone(r, n)
  \/ \E r \in Runs, n \in Nodes : \E resp \in GenResponses(doc[n].cat) : GenResolve(r, n, resp)
  \/ \E i \in DOMAIN timers : GenTimer(i)
  \/ \E i \in DOMAIN timers : SettleTimer(i)
  \/ \E r \in Runs, n \in Nodes : AnaCaptureDone(r, n)
  \/ \E r \in Runs, n \in Nodes : \E resp \in AnalysisResponses(doc[n].cat) : AnaResolve(r, n, resp)
  \/ \E i \in DOMAIN timers : AnaTimer(i)
  \/ \E i \in DOMAIN timers : TipTimer(i)

Spec == Init /\ [][Next]_vars

\* ------------------------------------------------------------------------
\* The classifier on its own: the filters of highlightImages are applied to
\* one image drawn from a set of attribute combinations
\* ------------------------------------------------------------------------
ProbeTexts ==
  { NULL, EMPTY, <<" ">>, <<"I", "m", "a", "g", "e">>, <<" ", "i", "c", "o", "n", " ">>,
    <<"A", " ", "c", "a", "t">>, <<"I", "c", "o", "n", " ", "s", "e", "t">>,
    <<"p", "h", "o", "t", "o", "s">> }

ProbeImages ==
  { [BlankNode EXCEPT !.cat = "Image", !.alt = a, !.ariaLabel = l,
                      !.ariaLabelledBy = b, !.role = ro] :
      a \in ProbeTexts, l \in ProbeTexts,
      b \in {NULL, ID_TITLE, ID_BLANK, ID_GONE},
      ro \in {NULL, <<"p","r","e","s","e","n","t","a","t","i","o","n">>} }

InitClassify ==
  /\ InitPipeline({MakeDoc(<<FldHidden>>)})
  /\ probe \in ProbeImages
  /\ verdict = NoVerdict
  /\ response = NoPayload
  /\ applied = BlankNode
  /\ cap = NoCapture
  /\ popup = NoPopup
  /\ ctx = NoContext

\* the two filters of highlightImages / analyzeAllImages applied to the probe
Classify ==
  /\ ~verdict.done
  /\ verdict' = [sent |-> FALSE, done |-> TRUE,
                 needsGeneration |-> NeedsGeneration(probe),
                 needsAnalysis |-> NeedsAnalysis(probe)]
  /\ UNCHANGED <<pipeVars, probe, response, applied, cap, popup, ctx>>

NextClassify == Classify

SpecClassify == InitClassify /\ [][NextClassify]_vars

\* ------------------------------------------------------------------------
\* The classifier on links and form fields: the filters of highlightLinks,
\* highlightFormFields and analyzeAllFormFields are applied to one node drawn
\* from a set of attribute combinations
\* ------------------------------------------------------------------------
T_ClickHere == <<"c", "l", "i", "c", "k", " ", "h", "e", "r", "e">>

T_Here == <<"h", "e", "r", "e">>

T_ReadMore == <<"r", "e", "a", "d", " ", "m", "o", "r", "e">>

T_ShippingAddress ==
  <<"S", "h", "i", "p", "p", "i", "n", "g", " ", "A", "d", "d", "r", "e", "s", "s">>

T_ContactSupportTeam ==
  <<"C", "o", "n", "t", "a", "c", "t", " ", "s", "u", "p", "p", "o", "r", "t", " ", "t", "e", "a", "m">>

T_LearnMore == <<"L", "e", "a", "r", "n", " ", "M", "o", "r", "e">>

T_Name == <<"N", "a", "m", "e">>

T_Email == <<"E", "m", "a", "i", "l">>

ProbeLinkTexts ==
  { EMPTY, <<" ">>, T_ClickHere, T_Here, T_ReadMore, T_ShippingAddress,
    T_ContactSupportTeam, T_LearnMore,
    <<"P", "r", "i", "c", "i", "n", "g">>, <<"O", "K">>,
    <<"H", "o", "m", "e">>,
    <<"R", "e", "a", "d", " ", "m", "o", "r", "e", " ", "a", "b", "o", "u", "t", " ",
      "o", "u", "r", " ", "o", "f", "f", "e", "r">>,
    <<"O", "u", "r", " ", "d", "o", "c", "u", "m", "e", "n", "t", "a", "t", "i", "o", "n">>,
    <<"A", "n", "n", "u", "a", "l", " ", "r", "e", "p", "o", "r", "t", " ", "2", "0", "2", "4">> }

ProbeLinks ==
  { [BlankNode EXCEPT !.cat = "Link", !.text = t, !.ariaLabel = l, !.title = ti] :
      t \in ProbeLinkTexts,
      l \in {NULL, T_Here,
             <<"A", "n", "n", "u", "a", "l", " ", "r", "e", "p", "o", "r", "t", " ", "2", "0", "2", "4">>},
      ti \in {NULL, <<"m", "o", "r", "e">>} }

ProbeFields ==
  { [BlankNode EXCEPT !.cat = "FormField", !.type = ty, !.id = <<"f">>,
                      !.labelExists = lb[1], !.labelText = lb[2],
                      !.wrapText = w[1], !.wrapAfter = w[2],
                      !.ariaLabel = l, !.ariaLabelledBy = b,
                      !.placeholder = ph, !.value = v] :
      ty \in NonLabelableTypes \cup {S_text, <<"e", "m", "a", "i", "l">>},
      lb \in {<<FALSE, EMPTY>>, <<TRUE, <<" ">>>>, <<TRUE, T_Name>>},
      w \in {<<NULL, EMPTY>>, <<<<" ">>, EMPTY>>, <<T_Name, EMPTY>>,
             <<EMPTY, T_Name>>, <<<<"N", "a">>, <<"m", "e">>>>},
      l \in {NULL, EMPTY, <<" ">>, T_Email},
      b \in {NULL, ID_TITLE, ID_BLANK, ID_GONE},
      ph \in {EMPTY, T_Email},
      v \in {EMPTY, T_Name, <<"a">>} }

InitClassifyNodes ==
  /\ InitPipeline({MakeDoc(<<FldHidden>>)})
  /\ probe \in ProbeLinks \cup ProbeFields
  /\ verdict = NoVerdict
  /\ response = NoPayload
  /\ applied = BlankNode
  /\ cap = NoCapture
  /\ popup = NoPopup
  /\ ctx = NoContext

SpecClassifyNodes == InitClassifyNodes /\ [][NextClassify]_vars

\* ------------------------------------------------------------------------
\* One generation task on its own: a node that is selected for generation is
\* marked, its inference call is answered by a response, the answer is applied
\* and the filters are applied to the node again
\* ------------------------------------------------------------------------
LnkLearnMore ==
  [BlankNode EXCEPT !.cat = "Link", !.text = <<"L", "e", "a", "r", "n", " ", "M", "o", "r", "e">>]

\* a field whose author wrote a label element for it and left it blank
FldBlankLabel ==
  [BlankNode EXCEPT !.cat = "FormField", !.type = S_text, !.id = <<"f">>,
                    !.labelExists = TRUE, !.labelText = <<" ">>]

\* a field inside a label element whose text, "a" before the input and " b"
\* after it, is the value of the field
FldWrapped ==
  [BlankNode EXCEPT !.cat = "FormField", !.type = S_text,
                    !.wrapText = <<"a">>, !.wrapAfter = <<" ", "b">>,
                    !.value = <<"a", " ", "b">>]

ProbeTasks ==
  { ImgNoAlt, ImgSmall, ImgGenericAlt, FldBare, FldPlaceholder, FldBlankLabel,
    FldBlankAria, FldWrapped, LnkVague, LnkIcon, LnkLearnMore }

\* responses the single task is answered with besides those of the pipeline
MoreGenPayloads(c) ==
  IF c = "Image"
    THEN { [Answer("Image") EXCEPT !.classification = S_decorative,
                             !.alt_text = NUM7],
           [Answer("Image") EXCEPT !.classification = S_decorative,
                             !.alt_text = <<" ">>],
           [Answer("Image") EXCEPT !.classification = S_decorative],
           [Answer("Image") EXCEPT !.classification = S_simple,
                             !.alt_text = <<"I", "c", "o", "n">>],
           [Answer("Image") EXCEPT !.classification = S_simple, !.alt_text = NUM0] }
  ELSE IF c = "FormField"
    THEN { [Answer("FormField") EXCEPT
                             !.label = <<"E", "m", "a", "i", "l", " ", "a", "d", "d", "r", "e", "s", "s">>,
                             !.aria_label = <<"E", "m", "a", "i", "l", " ", "a", "d", "d", "r", "e", "s", "s">>],
           [Answer("FormField") EXCEPT !.label = <<" ">>, !.aria_label = <<" ">>],
           [Answer("FormField") EXCEPT !.label = NUM0, !.aria_label = NUM0] }
  ELSE { [Answer("Link") EXCEPT
                           !.suggested_text = <<"V", "i", "e", "w", " ", "p", "r", "i", "c", "i", "n", "g", " ", "p", "l", "a", "n", "s">>,
                           !.aria_label = <<"V", "i", "e", "w", " ", "p", "r", "i", "c", "i", "n", "g", " ", "p", "l", "a", "n", "s">>],
         [Answer("Link") EXCEPT !.suggested_text = EMPTY,
                           !.aria_label = EMPTY],
         [Answer("Link") EXCEPT !.suggested_text = NUM0, !.aria_label = NUM0] }

InitApply ==
  /\ InitPipeline({MakeDoc(<<FldHidden>>)})
  /\ probe \in ProbeTasks
  /\ verdict = NoVerdict
  /\ response \in GenResponses(probe.cat) \cup MoreGenPayloads(probe.cat)
  /\ applied = probe
  /\ cap = NoCapture
  /\ popup = NoPopup
  /\ ctx = NoContext

\* whether the generation task of a node ends with success: true
TaskSucceeds(node, resp) ==
  (node.cat = "Image" /\ IsSmallImage(node)) \/ ~GenThrows(node.cat, resp)

\* the generation task of the probe up to its first await: the node is
\* marked and the request is sent; the task of an image below the size
\* threshold ends here, without a request
ApplyLaunch ==
  /\ ~verdict.sent /\ ~verdict.done
  /\ NeedsGeneration(probe)
  /\ applied' = LaunchDoc(<<probe>>)[1]
  /\ verdict' = IF probe.cat = "Image" /\ IsSmallImage(probe)
                THEN [sent |-> TRUE, done |-> TRUE,
                      needsGeneration |-> NeedsGeneration(applied'),
                      needsAnalysis |-> NeedsAnalysis(applied')]
                ELSE [verdict EXCEPT !.sent = TRUE]
  /\ UNCHANGED <<pipeVars, probe, response, cap, popup, ctx>>

\* a toggle message {enabled: false} is delivered while the request is in
\* flight: the else branch of the toggle listener runs on the marked node
ApplyToggleOff ==
  /\ verdict.sent /\ ~verdict.done
  /\ isEnabled' = FALSE
  /\ applied' = removeLinkHighlights(removeFormHighlights(removeHighlights(<<applied>>)))[1]
  /\ UNCHANGED <<stored, loaded, doc, doc0, numRuns, phase, gen, ana, timers,
                 probe, verdict, response, cap, popup, ctx>>

\* the request is answered: the rest of the task runs on the node as it is
\* then, and the two filters are applied to its result
ApplyProbe ==
  /\ verdict.sent /\ ~verdict.done
  /\ applied' = IF GenThrows(probe.cat, response) THEN MarkFailed(applied)
                ELSE ApplyResult(applied, response)
  /\ verdict' = [sent |-> TRUE, done |-> TRUE,
                 needsGeneration |-> NeedsGeneration(applied'),
                 needsAnalysis |-> NeedsAnalysis(applied')]
  /\ UNCHANGED <<pipeVars, probe, response, cap, popup, ctx>>

NextApply ==
  \/ ApplyLaunch
  \/ ApplyToggleOff
  \/ ApplyProbe

SpecApply == InitApply /\ [][NextApply]_vars

\* ------------------------------------------------------------------------
\* One call of a capture function: the promise, the image loads, the fetch
\* and the timers it starts, in any order the browser can deliver them.  A
\* canvas on which a cross-origin image loaded without CORS was drawn is
\* tainted: toDataURL throws a SecurityError on it; setting the width of a
\* canvas clears its bitmap and the taint with it.
\* ------------------------------------------------------------------------
\* resolve(canvas.toDataURL(...)): only the first call settles the promise
Resolve(c, kind) ==
  IF c.result.st = "pending"
  THEN [c EXCEPT !.result =
          [st |-> "resolved", kind |-> kind,
           width |-> CanvasSize(c.fn, c.geo, kind).width,
           height |-> CanvasSize(c.fn, c.geo, kind).height]]
  ELSE c

\* createImageFallback / createSVGFallback: the placeholder is drawn on a
\* canvas whose size has just been set
createImageFallback(c) == Resolve([c EXCEPT !.tainted = FALSE], "placeholder")

\* drawImagePlaceholder(); resolve(canvas.toDataURL(...)) of the context
\* captures: the canvas is the one the text context and the image were drawn on
drawImagePlaceholder(c) == IF c.tainted THEN c ELSE Resolve(c, "placeholder")

\* the onload handler of an image; cors tells whether the image was requested
\* with crossOrigin = 'anonymous'
OnLoad(c, cors) ==
  LET taints == ~cors /\ c.crossOrigin
  IN IF c.fn = "captureImageOnly"
       THEN IF taints THEN createImageFallback(c) ELSE Resolve([c EXCEPT !.tainted = FALSE], "image")
     ELSE IF c.fn = "captureImageWithContext"
       THEN IF c.tainted \/ taints THEN [c EXCEPT !.tainted = TRUE]
            ELSE Resolve(c, "image")
     ELSE Resolve(c, "image")

\* the onerror handler of an image
OnError(c) ==
  IF c.fn \in IsolatedFns THEN createImageFallback(c) ELSE drawImagePlaceholder(c)

CaptureInputs ==
  { [NoCapture EXCEPT !.fn = f, !.geo = g, !.crossOrigin = x, !.inline = i] :
      f \in IsolatedFns \cup ContextFns, g \in Geometries,
      x \in BOOLEAN, i \in BOOLEAN }

\* the call: the executor of the promise runs to its end
CaptureCall ==
  /\ cap.stage = "idle"
  /\ cap' =
       IF cap.fn \in SyncFns
         THEN Resolve([cap EXCEPT !.stage = "running"], "image")
       ELSE IF cap.fn \in SvgFns
         THEN [cap EXCEPT !.stage = "running",
                          !.fetch = IF cap.inline THEN "none" ELSE "pending",
                          !.img = IF cap.inline THEN "loading" ELSE "none",
                          !.ultimate = "pending"]
       ELSE [cap EXCEPT !.stage = "running", !.img = "loading",
                        !.retry = "pending", !.ultimate = "pending"]
  /\ UNCHANGED <<pipeVars, probe, verdict, response, applied, popup, ctx>>

\* fetch(imgElement.src) of an external SVG: the text holds an svg element
\* (an image is created from it) or not, or the fetch fails
FetchDone(outcome) ==
  /\ cap.fetch = "pending"
  /\ cap' = IF outcome = "svg" THEN [cap EXCEPT !.fetch = "done", !.img = "loading"]
            ELSE OnError([cap EXCEPT !.fetch = "done"])
  /\ UNCHANGED <<pipeVars, probe, verdict, response, applied, popup, ctx>>

ImgLoad ==
  /\ cap.img = "loading"
  /\ cap' = OnLoad([cap EXCEPT !.img = "loaded"], TRUE)
  /\ UNCHANGED <<pipeVars, probe, verdict, response, applied, popup, ctx>>

ImgError ==
  /\ cap.img = "loading"
  /\ cap' = OnError([cap EXCEPT !.img = "failed"])
  /\ UNCHANGED <<pipeVars, probe, verdict, response, applied, popup, ctx>>

\* the 2000 ms timer: a second image without crossOrigin when the first is
\* not complete
RetryTimer ==
  /\ cap.retry = "pending"
  /\ cap' = [cap EXCEPT !.retry = "fired",
                        !.img2 = IF cap.img = "loading" THEN "loading" ELSE @]
  /\ UNCHANGED <<pipeVars, probe, verdict, response, applied, popup, ctx>>

Img2Load ==
  /\ cap.img2 = "loading"
  /\ cap' = OnLoad([cap EXCEPT !.img2 = "loaded"], FALSE)
  /\ UNCHANGED <<pipeVars, probe, verdict, response, applied, popup, ctx>>

Img2Error ==
  /\ cap.img2 = "loading"
  /\ cap' = OnError([cap EXCEPT !.img2 = "failed"])
  /\ UNCHANGED <<pipeVars, probe, verdict, response, applied, popup, ctx>>

\* the last timer of the call (10000 ms, 5000 ms on the SVG paths)
UltimateTimer ==
  /\ cap.ultimate = "pending"
  /\ cap.retry # "pending"
  /\ cap' = OnError([cap EXCEPT !.ultimate = "fired"])
  /\ UNCHANGED <<pipeVars, probe, verdict, response, applied, popup, ctx>>

InitCapture ==
  /\ InitPipeline({MakeDoc(<<FldHidden>>)})
  /\ probe = BlankNode
  /\ verdict = NoVerdict
  /\ response = NoPayload
  /\ applied = BlankNode
  /\ cap \in CaptureInputs
  /\ popup = NoPopup
  /\ ctx = NoContext

NextCapture ==
  \/ CaptureCall
  \/ \E outcome \in {"svg", "nosvg", "failed"} : FetchDone(outcome)
  \/ ImgLoad
  \/ ImgError
  \/ RetryTimer
  \/ Img2Load
  \/ Img2Error
  \/ UltimateTimer

SpecCapture == InitCapture /\ [][NextCapture]_vars

\* ------------------------------------------------------------------------
\* The popup (popup.js): one session lasts from the opening of the popup
\* page to its closing
\* ------------------------------------------------------------------------
MaxClicks == 5

\* updateButton(enabled): the text of the toggle button
ButtonText(enabled) == IF enabled THEN "Disable" ELSE "Enable"

\* the value chrome.storage.sync holds after set({enabled: b})
StoredValue(b) == IF b THEN "true" ELSE "false"

\* the popup page is opened: DOMContentLoaded fires, the handler asks the
\* storage for 'enabled' and waits
PopupOpen ==
  /\ ~popup.open
  /\ popup' = [NoPopup EXCEPT !.open = TRUE, !.messages = popup.messages]
  /\ UNCHANGED <<pipeVars, probe, verdict, response, applied, cap, ctx>>

\* the storage answers: the handler binds the constant isEnabled, sets the
\* button and registers the click listener
PopupReady ==
  /\ popup.open /\ ~popup.ready
  /\ LET enabled == (stored # "false")
     IN popup' = [popup EXCEPT !.ready = TRUE, !.isEnabled = enabled,
                               !.label = ButtonText(enabled)]
  /\ UNCHANGED <<pipeVars, probe, verdict, response, applied, cap, ctx>>

\* a click on the toggle button: newState is computed from the constant of
\* the session and handed to chrome.storage.sync.set; the listener then waits
PopupClick ==
  /\ popup.ready
  /\ Len(popup.messages) + Len(popup.queries) + Len(popup.pending) < MaxClicks
  /\ LET newState == ~popup.isEnabled
     IN /\ stored' = StoredValue(newState)
        /\ popup' = [popup EXCEPT !.pending = Append(@, newState)]
  /\ UNCHANGED <<isEnabled, loaded, doc, numRuns, phase, gen, ana, timers, doc0,
                 probe, verdict, response, applied, cap, ctx>>

\* chrome.storage.sync.set of a click has resolved: the listener updates the
\* button, asks chrome.tabs.query for the active tab and waits again
PopupSetDone ==
  /\ popup.ready
  /\ popup.pending # <<>>
  /\ LET newState == Head(popup.pending)
     IN popup' = [popup EXCEPT !.pending = Tail(@),
                               !.label = ButtonText(newState),
                               !.queries = Append(@, newState)]
  /\ UNCHANGED <<pipeVars, probe, verdict, response, applied, cap, ctx>>

\* chrome.tabs.query of a click has resolved: the listener sends the toggle
\* message to the content script of the active tab
PopupQueryDone ==
  /\ popup.ready
  /\ popup.queries # <<>>
  /\ LET newState == Head(popup.queries)
     IN popup' = [popup EXCEPT !.queries = Tail(@),
                               !.sent = Append(@, newState),
                               !.messages = Append(@, newState)]
  /\ UNCHANGED <<pipeVars, probe, verdict, response, applied, cap, ctx>>

\* the popup page is closed: its listeners and its constant are gone
PopupClose ==
  /\ popup.open
  /\ popup' = [NoPopup EXCEPT !.messages = popup.messages]
  /\ UNCHANGED <<pipeVars, probe, verdict, response, applied, cap, ctx>>

InitPopup ==
  /\ InitPipeline({MakeDoc(<<FldHidden>>)})
  /\ probe = BlankNode
  /\ verdict = NoVerdict
  /\ response = NoPayload
  /\ applied = BlankNode
  /\ cap = NoCapture
  /\ popup = NoPopup
  /\ ctx = NoContext

NextPopup ==
  \/ PopupOpen
  \/ PopupReady
  \/ PopupClick
  \/ PopupSetDone
  \/ PopupQueryDone
  \/ PopupClose

SpecPopup == InitPopup /\ [][NextPopup]_vars

\* ------------------------------------------------------------------------
\* Context extraction: the page-derived text of one generation request.
\* A text is represented by its length
\* ------------------------------------------------------------------------
PageCap == 400
InputCap == 200
SurroundingCap == 300
LinkCap == 300
DestinationCap == 200
MetaCap == 100
ParentTextCap == 200
LinkParentCap == 50
SearchCap == 50
HrefCap == 100
OnclickCap == 50
MaxOptions == 8

\* the lengths the texts of the document are drawn from
TextLens == {Absent, 8, 600}

RECURSIVE SumSeq(_)
SumSeq(s) == IF s = <<>> THEN 0 ELSE Head(s) + SumSeq(Tail(s))

\* the length of parts.join(sep) for a separator of sepLen characters
JoinLen(parts, sepLen) ==
  IF parts = <<>> THEN 0 ELSE SumSeq(parts) + sepLen * (Len(parts) - 1)

\* contexts.push(prefix + text) when the condition holds
Part(cond, len) == IF cond THEN <<len>> ELSE <<>>

RECURSIVE DigitsLen(_)
\* the number of characters of a number in a template literal
DigitsLen(n) ==
  IF n < 0 THEN 1 + DigitsLen(0 - n)
  ELSE IF n < 10 THEN 1 ELSE 1 + DigitsLen(n \div 10)

\* pageTypes of getPageContext: the lengths of 'form page', 'product page',
\* 'article page' and 'navigation present'
pageTypes(c) ==
  Part(c.hasForm, 9) \o Part(c.hasProduct, 12) \o Part(c.hasArticle, 12)
  \o Part(c.hasNav, 18)

getPageContext(c) ==
  LET contexts ==
        Part(c.title > 0, 6 + c.title)
        \o Part(c.meta # Absent, 9 + Min(c.meta, MetaCap))
        \o Part(c.h1 # Absent, 14 + c.h1)
        \o Part(c.section # Absent, 9 + c.section)
        \o Part(pageTypes(c) # <<>>, 11 + JoinLen(pageTypes(c), 2))
  IN Min(JoinLen(contexts, 2), PageCap)

getInputContext(c) ==
  LET contexts ==
        <<12 + c.typeLen>>
        \o Part(c.required, 14)
        \o Part(c.pattern > 0, 9 + c.pattern)
        \o Part(c.maxLength # 0, 12 + DigitsLen(c.maxLength))
        \o Part(c.inForm, 6 + DigitsLen(c.position) + 4 + DigitsLen(c.formSize))
        \o Part(c.legend # Absent, 12 + c.legend)
        \o Part(c.prevLabel > 0, 16 + c.prevLabel)
  IN Min(JoinLen(contexts, 2), InputCap)

getSurroundingText(c) ==
  LET contexts ==
        Part(c.parentText > 0, Min(c.parentText, ParentTextCap))
        \o Part(c.buttonText > 0, 20 + c.buttonText)
        \o Part(c.caption # Absent, 11 + c.caption)
        \o Part(c.description # Absent, 15 + c.description)
  IN Min(JoinLen(contexts, 2), SurroundingCap)

getLinkContext(c) ==
  LET contexts ==
        <<9 + c.tagLen>>
        \o Part(c.target > 0, 8 + c.target)
        \o Part(c.download, 13)
        \o Part(c.inNav, 13)
        \o Part(c.inHeader, 9)
        \o Part(c.inFooter, 9)
        \o Part(c.inMain, 15)
        \o Part(c.insideButton, 13)
        \o Part(c.listItems # Absent, 11 + DigitsLen(c.listItems) + 6)
        \o Part(c.parentText > 10, 11 + Min(c.parentText, LinkParentCap))
        \o Part(c.prevLink > 0, 17 + c.prevLink)
  IN Min(JoinLen(contexts, 2), LinkCap)

\* href is "none" for a link without href, "invalid" when new URL throws,
\* "internal" or "external" by the host name of the URL
getLinkDestination(c) ==
  LET parsed == c.href \in {"internal", "external"}
      destinations ==
        Part(c.href = "external", 15 + c.hostLen)
        \o Part(c.href = "internal", 13)
        \o Part(parsed /\ c.path > 0, 7 + c.path)
        \o Part(parsed /\ c.search > 0, 16 + Min(c.search, SearchCap))
        \o Part(parsed /\ c.hash > 0, 8 + c.hash)
        \o Part(parsed /\ c.fileExt > 0, 11 + c.fileExt)
        \o Part(c.href = "invalid", 5 + Min(c.hrefLen, HrefCap))
        \o Part(c.onclick > 0, 19 + Min(c.onclick, OnclickCap))
        \o Part(c.dataHref > 0, 18 + c.dataHref)
  IN Min(JoinLen(destinations, 2), DestinationCap)

\* the texts of the options of a select that have a value and a text, the
\* first eight of them
optionTexts(c) ==
  IF c.isSelect /\ c.optionLen > 0
    THEN [i \in 1..Min(c.nOptions, MaxOptions) |-> c.optionLen]
  ELSE <<>>

\* the inputContext that generateFormFieldHelp embeds in its prompt
FormContextText(c) ==
  LET inputContext == getInputContext(c)
  IN IF optionTexts(c) # <<>>
       THEN 34 + inputContext + 30 + JoinLen(optionTexts(c), 2)
     ELSE inputContext

\* the page-derived text embedded in the request of a generation task
RequestText(c) ==
  IF c.kind = "FormGeneration" THEN FormContextText(c)
  ELSE IF c.kind = "ImageGeneration"
    THEN c.title + getPageContext(c) + getSurroundingText(c)
  ELSE getLinkContext(c) + getLinkDestination(c) + getPageContext(c)

FormInputs ==
  { [NoContext EXCEPT !.kind = "FormGeneration", !.typeLen = IF sel THEN 10 ELSE 4,
                      !.isSelect = sel, !.maxLength = IF sel THEN 0 ELSE ml,
                      !.pattern = IF sel THEN 0 ELSE pa,
                      !.required = rq, !.inForm = TRUE,
                      !.position = pos[1], !.formSize = pos[2],
                      !.legend = lg,
                      !.prevLabel = IF pos[1] = 1 THEN 0 ELSE pl,
                      !.nOptions = IF sel THEN no ELSE 0,
                      !.optionLen = IF sel THEN ol ELSE 0] :
      sel \in BOOLEAN, rq \in BOOLEAN, ml \in {-1, 20}, pa \in {0, 8},
      pos \in {<<1, 1>>, <<10, 12>>}, lg \in TextLens, pl \in {0, 8, 600},
      no \in {0, 1, 9}, ol \in {5, 300} }

ImageInputs ==
  { [NoContext EXCEPT !.kind = "ImageGeneration", !.title = ti, !.meta = me,
                      !.h1 = h, !.section = se,
                      !.hasForm = "form" \in pt, !.hasProduct = "product" \in pt,
                      !.hasArticle = "article" \in pt, !.hasNav = "nav" \in pt,
                      !.parentText = pa, !.buttonText = bt, !.caption = ca,
                      !.description = de] :
      ti \in {0, 8, 600}, me \in TextLens, h \in TextLens, se \in TextLens,
      pt \in {{}, {"form"}, {"nav"}, {"form", "product", "article", "nav"}},
      pa \in {0, 8, 600}, bt \in {0, 8}, ca \in TextLens, de \in {Absent, 600} }

LinkInputs ==
  { [NoContext EXCEPT !.kind = "LinkGeneration", !.title = ti, !.h1 = h,
                      !.hasNav = pl, !.tagLen = IF hr = "none" THEN 6 ELSE 1,
                      !.target = IF pl /\ hr # "none" THEN 6 ELSE 0,
                      !.download = (pl /\ hr # "none"),
                      !.inNav = pl, !.inHeader = pl, !.inFooter = pl, !.inMain = pl,
                      !.insideButton = pl /\ hr # "none", !.listItems = li,
                      !.parentText = pt, !.prevLink = pv,
                      !.href = hr, !.hrefLen = IF hr = "none" THEN 0 ELSE 600,
                      !.hostLen = 11, !.path = pa, !.search = pa, !.hash = pa,
                      !.fileExt = IF pa = 8 THEN 3 ELSE 0,
                      !.onclick = IF hr = "none" THEN 600 ELSE 0,
                      !.dataHref = dh] :
      ti \in {0, 8}, h \in {Absent, 600}, pl \in BOOLEAN, li \in {Absent, 12},
      pt \in {0, 8, 600}, pv \in {0, 8, 600},
      hr \in {"none", "internal", "external", "invalid"},
      pa \in {0, 8, 600}, dh \in {0, 600} }

\* the context functions are called and the request text is assembled
BuildRequest ==
  /\ ~ctx.built
  /\ ctx' = [ctx EXCEPT !.built = TRUE,
                        !.page = getPageContext(ctx),
                        !.input = getInputContext(ctx),
                        !.surrounding = getSurroundingText(ctx),
                        !.link = getLinkContext(ctx),
                        !.destination = getLinkDestination(ctx),
                        !.request = RequestText(ctx)]
  /\ UNCHANGED <<pipeVars, probe, verdict, response, applied, cap, popup>>

InitContext ==
  /\ InitPipeline({MakeDoc(<<FldHidden>>)})
  /\ probe = BlankNode
  /\ verdict = NoVerdict
  /\ response = NoPayload
  /\ applied = BlankNode
  /\ cap = NoCapture
  /\ popup = NoPopup
  /\ ctx \in FormInputs \cup ImageInputs \cup LinkInputs

NextContext == BuildRequest

SpecContext == InitContext /\ [][NextContext]_vars

\* ------------------------------------------------------------------------
\* Properties
\* ------------------------------------------------------------------------
\* the content of a node: its attributes, text and label, without the
\* highlight (outline, classes, inline style)
Content(node) ==
  [ alt |-> node.alt, ariaLabel |-> node.ariaLabel, title |-> node.title,
    id |-> node.id, text |-> node.text,
    labelExists |-> node.labelExists, labelText |-> node.labelText,
    labelAi |-> node.labelAi,
    dataOriginalText |-> node.dataOriginalText,
    dataAiGenerated |-> node.dataAiGenerated ]

\* a run is in flight for a category
Active(r, c) == phase[r][c] \in {"gen", "settling", "analysis"}

\* C1: in every step that starts an analysis task of a category, no
\* generation task of that category (of any run) is still unsettled.
C1_AnalysisAfterGeneration ==
  [][ \A r \in Runs, n \in Nodes :
        (ana[r][n].st = "none" /\ ana'[r][n].st # "none")
          => \A r2 \in Runs, n2 \in Nodes :
               doc[n2].cat = doc[n].cat => ~InFlight(gen[r2][n2]) ]_vars

\* C2: at most one run per category is in flight (GenerationFanOut, Settling
\* or AnalysisFanOut) at any time.
C2_OneRunPerCategory ==
  \A c \in Categories : Cardinality({r \in Runs : Active(r, c)}) <= 1

\* C3: a generation task that settles while the pipeline is disabled leaves
\* the content of its node (attributes, text, label) as it was.
C3_ResultDiscardedWhenDisabled ==
  [][ \A r \in Runs, n \in Nodes :
        (~isEnabled /\ gen[r][n].st = "fetch" /\ Settled(gen'[r][n]))
          => Content(doc'[n]) = Content(doc[n]) ]_vars

\* C4: toggling off leaves every link whose text generation replaced in the
\* document, with its original text and without provenance markers.
C4_ToggleOffRestoresLinks ==
  [][ Toggle(FALSE) =>
        \A n \in Nodes :
          (doc[n].cat = "Link" /\ doc[n].present /\ doc[n].dataAiGenerated = S_true)
            => /\ doc'[n].present
               /\ doc'[n].text = doc0[n].text
               /\ doc'[n].dataAiGenerated = NULL
               /\ doc'[n].dataOriginalText = NULL ]_vars

\* C5: for every category, when the settling delay of a run has elapsed the
\* run enters the analysis fan-out (and is idle again at once when there is
\* nothing to analyze).
C5_SettlingLeadsToAnalysis ==
  [][ \A r \in Runs, c \in Categories :
        (phase[r][c] = "settling" /\ phase'[r][c] # "settling")
          => phase'[r][c] \in {"analysis", "done"} ]_vars

\* C6: when the inference call of a node's generation task fails, the outcome
\* of that node is success = false, the sibling tasks of the fan-out are left
\* as they are, and the run moves on once the last task has settled.
C6_FailureIsNodeScoped ==
  [][ \A r \in Runs, n \in Nodes : \A resp \in ErrorResponses :
        GenResolve(r, n, resp)
          => /\ gen'[r][n].st = "fail"
             /\ \A m \in Nodes \ {n} : gen'[r][m] = gen[r][m] /\ doc'[m] = doc[m]
             /\ (\A m \in Nodes : doc[m].cat = doc[n].cat => ~InFlight(gen'[r][m]))
                  => phase'[r][doc[n].cat] = "settling" ]_vars

\* C7: for every category, a node whose inference call failed during
\* generation carries the failure indicator (red outline, failure message).
C7_FailureIsMarked ==
  [][ \A r \in Runs, n \in Nodes : \A resp \in ErrorResponses :
        GenResolve(r, n, resp)
          => /\ doc'[n].outline = "red"
             /\ gen'[r][n].ind = "failed"
             /\ gen'[r][n].st # "ok" ]_vars

\* the required fields of the generation schema of a category
RequiredFields(c, resp) ==
  IF c = "Image" THEN {resp.classification, resp.alt_text, resp.reasoning}
  ELSE IF c = "FormField"
    THEN {resp.field_purpose, resp.input_type, resp.label, resp.aria_label}
  ELSE {resp.current_text_analysis, resp.link_purpose, resp.suggested_text,
        resp.aria_label, resp.improvement_reasoning}

\* the enumeration the image schema restricts classification to
ClassificationEnum ==
  { S_decorative, S_simple,
    <<"c", "o", "m", "p", "l", "e", "x", "_", "i", "n", "f", "o", "r", "m", "a", "t", "i", "v", "e">> }

\* a parsed payload that lacks a required field, has it with another type
\* than string, or has a classification outside the enumeration
SchemaViolation(c, resp) ==
  /\ resp.kind = "payload"
  /\ \/ \E v \in RequiredFields(c, resp) : v = NULL \/ IsNum(v)
     \/ c = "Image" /\ resp.classification \notin ClassificationEnum

\* C8: a payload that violates the schema makes the task fail, and nothing
\* of it is applied to the node.
C8_SchemaViolationIsError ==
  [][ \A r \in Runs, n \in Nodes : \A resp \in GenResponses(doc[n].cat) :
        (GenResolve(r, n, resp) /\ SchemaViolation(doc[n].cat, resp))
          => /\ gen'[r][n].st = "fail"
             /\ Content(doc'[n]) = Content(doc[n]) ]_vars

\* an existing non-generic description: an alt or aria-label attribute that is
\* present, has a character that is not white space, and whose trimmed
\* lower-case form is not in the generic lexicon
IsDescription(text) ==
  /\ text # NULL
  /\ \E i \in 1..Len(text) : ~IsWs(text[i])
  /\ ~InList(generic, toLowerCase(trim(text)))

HasDescription(img) == IsDescription(img.alt) \/ IsDescription(img.ariaLabel)

\* C9: an image with an existing non-generic description (alt or aria-label)
\* is never selected for generation, and no image is selected both by the
\* generation filter and by the analysis filter.
C9_DescribedImageNotGenerated ==
  verdict.done =>
    /\ HasDescription(probe) => ~verdict.needsGeneration
    /\ ~(verdict.needsGeneration /\ verdict.needsAnalysis)
    /\ ~(needsAltText(probe) /\ hasExistingAltText(probe))

\* C9 witness: an image whose alt is generic and whose aria-label is a
\* description has been classified: it is selected for analysis only.
C9_Witness ==
  /\ verdict.done
  /\ probe.alt # NULL /\ isGenericAltText(probe.alt)
  /\ IsDescription(probe.ariaLabel)
  /\ verdict.needsAnalysis
  /\ ~verdict.needsGeneration

\* the inserted visible label of a form field
HasInsertedLabel(input) == input.labelExists /\ input.labelAi

\* the aria-label attribute of a form field
HasAriaLabel(input) == Truthy(input.ariaLabel)

\* a generation task of a form field that lacked an accessible name resolves
\* with success
FormGenSucceeds(r, n, resp) ==
  /\ GenResolve(r, n, resp)
  /\ doc[n].cat = "FormField"
  /\ needsLabel(doc[n])
  /\ gen'[r][n].st = "ok"

\* C10 as stated, for the payloads that conform to the schema: after a
\* successful generation task on a form field that lacked an accessible name,
\* exactly one of {inserted visible label, aria-label attribute} is set.
C10_ExactlyOneName ==
  [][ \A r \in Runs, n \in Nodes : \A resp \in GenResponses(doc[n].cat) :
        (FormGenSucceeds(r, n, resp) /\ ~SchemaViolation("FormField", resp))
          => (HasInsertedLabel(doc'[n]) # HasAriaLabel(doc'[n])) ]_vars

\* C10 amended: after a successful generation task on a form field that lacked
\* an accessible name, the field has the inserted visible label, with the
\* result's text, when the result carries a label, and its label is left as
\* it was when the result carries none; its aria-label attribute is the
\* result's aria_label when the result carries one and the field had no
\* aria-label attribute or an empty one, and is left as it was otherwise (a
\* blank attribute the author wrote is kept). A field without the attribute
\* has both names when the result carries both, and neither when it carries
\* none.
C10_NameFollowsResult ==
  [][ \A r \in Runs, n \in Nodes : \A resp \in GenResponses(doc[n].cat) :
        FormGenSucceeds(r, n, resp)
          => /\ IF JsTruthy(resp.label)
                  THEN /\ HasInsertedLabel(doc'[n])
                       /\ doc'[n].labelText = ToDomString(resp.label)
                  ELSE /\ doc'[n].labelExists = doc[n].labelExists
                       /\ doc'[n].labelAi = doc[n].labelAi
                       /\ doc'[n].labelText = doc[n].labelText
             /\ IF JsTruthy(resp.aria_label) /\ doc[n].ariaLabel \in {NULL, EMPTY}
                  THEN doc'[n].ariaLabel = ToDomString(resp.aria_label)
                  ELSE doc'[n].ariaLabel = doc[n].ariaLabel
             /\ doc[n].ariaLabel = NULL
                  => HasAriaLabel(doc'[n]) = JsTruthy(resp.aria_label)
             /\ ~HasInsertedLabel(doc[n])
                  => HasInsertedLabel(doc'[n]) = JsTruthy(resp.label) ]_vars

\* C10 witness: a form field that lacked an accessible name carries, after
\* its successful generation task, the inserted label and the aria-label.
C10_Witness ==
  \E r \in Runs, n \in Nodes :
    /\ doc[n].cat = "FormField"
    /\ needsLabel(doc0[n])
    /\ gen[r][n].st = "ok"
    /\ HasInsertedLabel(doc[n])
    /\ HasAriaLabel(doc[n])

\* the result of a node's generation task is still in place on the node
Remediated(n) ==
  IF doc[n].cat = "Link" THEN doc[n].dataAiGenerated = S_true
  ELSE IF doc[n].cat = "FormField"
    THEN HasInsertedLabel(doc[n]) \/ doc[n].ariaLabel # doc0[n].ariaLabel
  ELSE doc[n].alt # doc0[n].alt

\* C11: when a run starts, a node whose generation task already succeeded and
\* that still carries the result gets no generation task in the new run, and
\* its content is left as it is.
C11_RerunIsNoOp ==
  [][ numRuns' = numRuns + 1 =>
        \A n \in Nodes :
          (Remediated(n) /\ \E r \in Runs : gen[r][n].st = "ok")
            => /\ gen'[numRuns'][n].st = "none"
               /\ Content(doc'[n]) = Content(doc[n]) ]_vars

\* the inference call of the probe's task answered with a payload that
\* classifies the image as decorative
DecorativeResult ==
  /\ verdict.done
  /\ probe.cat = "Image"
  /\ ~IsSmallImage(probe)
  /\ response.kind = "payload"
  /\ response.classification = S_decorative

\* C12: when the inference result of an image has classification decorative,
\* the alt attribute applied to the image is the empty string, whatever the
\* alt_text of the result is.
C12_DecorativeYieldsEmpty == DecorativeResult => applied.alt = EMPTY

\* C12 witness: a result classified decorative that carries a non-empty
\* alt_text has been applied, and the alt attribute is the empty string.
C12_Witness ==
  /\ DecorativeResult
  /\ JsTruthy(response.alt_text)
  /\ probe.alt # EMPTY
  /\ applied.alt = EMPTY

\* C13: the vague-link filter selects the links with text "click here", "here"
\* and "read more" for generation, and does not select the links with text
\* "Shipping Address" and "Contact support team".
C13_VagueLinkExamples ==
  (verdict.done /\ probe.cat = "Link") =>
    /\ probe.text \in {T_ClickHere, T_Here, T_ReadMore} => verdict.needsGeneration
    /\ probe.text \in {T_ShippingAddress, T_ContactSupportTeam}
         => ~verdict.needsGeneration

\* C14: a link with text "Learn More" is selected for generation, and once
\* its generation task has succeeded and replaced its text, the filter no
\* longer selects it.
C14_LearnMoreSettles ==
  (probe.cat = "Link" /\ probe.text = T_LearnMore) =>
    /\ NeedsGeneration(probe)
    /\ (/\ verdict.done
        /\ TaskSucceeds(probe, response)
        /\ applied.text # probe.text)
         => ~verdict.needsGeneration

\* C15: once the last timer of a capture call has fired, the call has
\* resolved with an image.
C15_CaptureResolves ==
  cap.ultimate = "fired" => cap.result.st = "resolved"

\* C19: the image a capture call resolves with is at most 800 wide and at
\* most 600 high, for every capture function, element size and viewport.
C19_CaptureSizeBounded ==
  cap.result.st = "resolved" =>
    cap.result.width <= ContextMaxWidth /\ cap.result.height <= ContextMaxHeight

\* C16: the generation task of a form field leaves a label element that
\* exists for the field as it is (its text, and no generated marker on it),
\* and leaves an aria-label the field has as it is.
C16_AuthorValuesKept ==
  (verdict.done /\ probe.cat = "FormField") =>
    /\ probe.labelExists
         => /\ applied.labelExists
            /\ applied.labelText = probe.labelText
            /\ applied.labelAi = probe.labelAi
    /\ Truthy(probe.ariaLabel) => applied.ariaLabel = probe.ariaLabel

\* the provenance marker of the pipeline: data-ai-generated="true" on the
\* node, or on the label element of a form field
HasMarker(node) == node.dataAiGenerated = S_true \/ node.labelAi

\* C17: for every category, a node whose generation task succeeded and
\* changed its content carries the provenance marker, and a node whose
\* generation task failed carries none.
C17_ProvenanceRecorded ==
  verdict.done =>
    /\ (TaskSucceeds(probe, response) /\ Content(applied) # Content(probe))
         => HasMarker(applied)
    /\ ~TaskSucceeds(probe, response) => ~HasMarker(applied)

\* a loading indicator of a task is in the document
IndicatorShown(t) == t.ind \notin {"none", "removed"}

\* nothing of the pipeline is in the document: no highlight, marker,
\* generated label or styling on a node, no tooltip and no loading indicator
NoTrace ==
  /\ \A n \in Nodes :
        doc[n].present =>
          /\ doc[n].outline = ""
          /\ doc[n].classes = {}
          /\ ~doc[n].labelAi
          /\ doc[n].dataAiGenerated = NULL
          /\ doc[n].dataOriginalText = NULL
          /\ ~doc[n].aiStyled
  /\ \A r \in Runs, n \in Nodes :
        /\ ~IndicatorShown(gen[r][n]) /\ ~IndicatorShown(ana[r][n])
        /\ gen[r][n].tip # "shown" /\ ana[r][n].tip # "shown"

\* C18: while the pipeline is disabled, no highlight, marker, generated
\* label, tooltip or loading indicator of the pipeline is in the document.
C18_DisabledLeavesNoTrace == ~isEnabled => NoTrace

\* a text that is present and has a character that is not white space
HasNonBlank(text) == text # NULL /\ \E i \in 1..Len(text) : ~IsWs(text[i])

\* the characterisation of a field without accessible name: a labelable input
\* kind, no label element with text for the field or around it, no non-blank
\* aria-label, no aria-labelledby that resolves to an element with text
LacksAccessibleName(input) ==
  /\ input.type \notin {<<"h","i","d","d","e","n">>, <<"s","u","b","m","i","t">>,
                         <<"b","u","t","t","o","n">>, <<"r","e","s","e","t">>}
  /\ ~(input.labelExists /\ HasNonBlank(input.labelText))
  /\ ~(input.wrapText # NULL /\ HasNonBlank(input.wrapText \o input.wrapAfter))
  /\ ~HasNonBlank(input.ariaLabel)
  /\ ~(/\ input.ariaLabelledBy \notin {NULL, EMPTY}
       /\ HasNonBlank(ElementTextById(input.ariaLabelledBy)))

\* C20: a form field is selected for generation exactly when its input kind
\* is labelable and it has no visible label, no non-blank aria-label and no
\* resolving aria-labelledby; its placeholder does not change the result.
C20_NeedsLabelCharacterised ==
  (verdict.done /\ probe.cat = "FormField") =>
    /\ verdict.needsGeneration = LacksAccessibleName(probe)
    /\ \A ph \in {EMPTY, <<" ">>, T_Email, T_Name} :
         needsLabel([probe EXCEPT !.placeholder = ph]) = verdict.needsGeneration

\* a form field the analysis re-query keeps: its type is not one of hidden,
\* submit, button, reset
IsLabelableField(node) ==
  node.type = NULL \/ node.type = EMPTY \/
  node.type \notin { <<"h","i","d","d","e","n">>, <<"s","u","b","m","i","t">>,
                     <<"b","u","t","t","o","n">>, <<"r","e","s","e","t">> }

\* C21: in the step that starts the analysis of a run for images or form
\* fields, the nodes given an analysis task are exactly the nodes of the
\* category that are in the document at that moment and that, in the document
\* as it is at that moment, are labelable fields (for form fields) or carry a
\* non-generic description (for images) - whatever they were at the run's start.
C21_AnalysisUsesCurrentDocument ==
  [][ \A r \in Runs, c \in {"Image", "FormField"} :
        (phase[r][c] = "settling" /\ phase'[r][c] \in {"analysis", "done"})
        => \A n \in Nodes :
             doc[n].cat = c =>
               ( (ana'[r][n].st # "none")
                 <=> ( /\ doc[n].present
                       /\ IF c = "Image" THEN HasDescription(doc[n])
                                         ELSE IsLabelableField(doc[n]) ) ) ]_vars

\* an image without description at the run's start, described by the
\* generation phase and then given an analysis task
C21_Witness ==
  \E r \in Runs, n \in Nodes :
    /\ doc[n].cat = "Image" /\ ~HasDescription(doc0[n])
    /\ HasDescription(doc[n]) /\ ana[r][n].st # "none"

\* the values the clicks of the current popup session handed to the storage,
\* in the order of the clicks
SessionStores == popup.sent \o popup.queries \o popup.pending

\* C22: in one popup session the values stored by successive clicks
\* alternate, and so do the values sent to the content script; the first
\* click stores the negation of the state the popup opened with; and once
\* every click listener has run to its end the button shows the stored state.
C22_ClicksAlternate ==
  popup.ready =>
    /\ \A i \in 1..Len(SessionStores) :
         SessionStores[i] = IF i = 1 THEN ~popup.isEnabled ELSE ~SessionStores[i - 1]
    /\ \A i \in 1..(Len(popup.sent) - 1) : popup.sent[i + 1] = ~popup.sent[i]
    /\ popup.pending = <<>> => popup.label = ButtonText(stored # "false")

\* TRUE when the value is missing or has no character other than white space
IsBlankText(t) == t = NULL \/ \A i \in 1..Len(t) : IsWs(t[i])

\* the text of a link: its visible text, else its aria-label, else its title,
\* without the white space around it
LinkTextOf(link) ==
  IF ~IsBlankText(link.text) THEN trim(link.text)
  ELSE IF ~IsBlankText(link.ariaLabel) THEN trim(link.ariaLabel)
  ELSE IF ~IsBlankText(link.title) THEN trim(link.title)
  ELSE EMPTY

\* the number of words of a text: the maximal runs of non-space characters
WordCount(t) ==
  Cardinality({i \in 1..Len(t) : ~IsWs(t[i]) /\ (i = 1 \/ IsWs(t[i - 1]))})

ContainsVaguePhrase(t) ==
  \E i \in 1..Len(vaguePatterns) : includes(toLowerCase(t), vaguePatterns[i])

ContainsDescriptiveTerm(t) ==
  \E i \in 1..Len(descriptiveWords) : includes(toLowerCase(t), descriptiveWords[i])

\* C23: a link is selected for generation exactly when its text (visible
\* text, else aria-label, else title) is non-empty and either has at most 3
\* words and contains a phrase of the vague lexicon, or has at most 8
\* characters and contains no term of the descriptive lexicon; a link with no
\* visible text, no aria-label and no title is never selected.
C23_LinkNeedsGenerationCharacterised ==
  (verdict.done /\ probe.cat = "Link") =>
    LET t == LinkTextOf(probe)
    IN /\ verdict.needsGeneration
            <=> /\ t # EMPTY
                /\ \/ WordCount(t) <= 3 /\ ContainsVaguePhrase(t)
                   \/ Len(t) <= 8 /\ ~ContainsDescriptiveTerm(t)
       /\ (IsBlankText(probe.text) /\ IsBlankText(probe.ariaLabel)
             /\ IsBlankText(probe.title)) => ~verdict.needsGeneration

\* a link without visible text and without aria-label, selected because of
\* its title; the other rule is taken by the link "OK"
C23_Witness ==
  /\ verdict.done /\ probe.cat = "Link" /\ verdict.needsGeneration
  /\ IsBlankText(probe.text) /\ probe.ariaLabel = NULL /\ probe.title # NULL

\* an image declared decorative by its author
ExplicitlyDecorative(img) ==
  img.alt = EMPTY \/ img.role = <<"p","r","e","s","e","n","t","a","t","i","o","n">>

\* a text that contains an entry of the generic lexicon without being one
ContainsGenericWord(text) ==
  /\ text # NULL
  /\ \E i \in 1..Len(generic) : includes(toLowerCase(text), generic[i])
  /\ \A i \in 1..Len(generic) : toLowerCase(trim(text)) # generic[i]

\* C24: the images fall into three disjoint classes. An image is selected
\* for generation exactly when it has no non-generic alt or aria-label, no
\* valid aria-labelledby and is not explicitly decorative (alt = "" or
\* role = presentation); it is selected for analysis exactly when it has a
\* non-generic alt or aria-label; otherwise it is skipped. A text is generic
\* only when it equals a lexicon entry, letter case aside: an alt that merely
\* contains a lexicon word is a description.
C24_ImagePartition ==
  verdict.done =>
    /\ verdict.needsGeneration
         <=> (~HasDescription(probe) /\ ~HasValidLabelledBy(probe)
                /\ ~ExplicitlyDecorative(probe))
    /\ verdict.needsAnalysis <=> HasDescription(probe)
    /\ ~(verdict.needsGeneration /\ verdict.needsAnalysis)
    /\ (ContainsGenericWord(probe.alt) \/ ContainsGenericWord(probe.ariaLabel))
         => (verdict.needsAnalysis /\ ~verdict.needsGeneration)

\* an image whose alt contains the lexicon word "icon" has been classified:
\* it is analysed, not regenerated; the image has nothing else to name it
C24_Witness ==
  /\ verdict.done
  /\ ContainsGenericWord(probe.alt)
  /\ probe.ariaLabel = NULL /\ probe.ariaLabelledBy = NULL /\ probe.role = NULL
  /\ verdict.needsAnalysis /\ ~verdict.needsGeneration

\* the probe is a link whose generation task got a result from the service
LinkResultApplied ==
  verdict.done /\ probe.cat = "Link" /\ response.kind = "payload"

\* what C25 says of the visible text and of aria-label, given the text that
\* data-original-text has to hold
LinkApplied(previousText) ==
  /\ IF JsTruthy(response.suggested_text)
       THEN /\ applied.text = ToDomString(response.suggested_text)
            /\ applied.dataOriginalText = previousText
       ELSE /\ applied.text = probe.text
            /\ applied.dataOriginalText = probe.dataOriginalText
  /\ applied.ariaLabel =
       IF probe.ariaLabel # NULL /\ probe.ariaLabel # EMPTY THEN probe.ariaLabel
       ELSE IF JsTruthy(response.aria_label) THEN ToDomString(response.aria_label)
       ELSE probe.ariaLabel

\* C25 as stated: applying a link result replaces the visible text by the
\* suggested text, stores in data-original-text the visible text the link had
\* right before, and sets aria-label only if the link had none.
C25_StoresPreviousVisibleText ==
  LinkResultApplied => LinkApplied(trim(probe.text))

\* C25 amended: applying a link result replaces the visible text by the
\* suggested text, stores in data-original-text the link's text as the
\* classifier reads it (the trimmed visible text, else the aria-label, else
\* the title), and sets aria-label only if the link had none.
C25_StoresPreviousLinkText ==
  LinkResultApplied => LinkApplied(LinkTextOf(probe))

\* a link without visible text, named by its aria-label, has been rewritten:
\* data-original-text holds the aria-label, which is itself left as it was
C25_Witness ==
  /\ LinkResultApplied
  /\ IsBlankText(probe.text) /\ ~IsBlankText(probe.ariaLabel)
  /\ JsTruthy(response.suggested_text) /\ JsTruthy(response.aria_label)
  /\ applied.text = ToDomString(response.suggested_text)
  /\ applied.dataOriginalText = probe.ariaLabel
  /\ applied.ariaLabel = probe.ariaLabel

\* the sum of the caps of the context functions a request embeds
RequestCap(kind) ==
  IF kind = "FormGeneration" THEN InputCap
  ELSE IF kind = "ImageGeneration" THEN PageCap + SurroundingCap
  ELSE LinkCap + DestinationCap + PageCap

\* C26: each context function returns at most its cap (400, 300 or 200
\* characters), and the page-derived text of a request is bounded by the caps
\* of the context functions it embeds, whatever the document holds: nothing
\* taken from the page is added to the request after the truncation.
C26_ContextBounded ==
  ctx.built =>
    /\ ctx.page <= PageCap
    /\ ctx.input <= InputCap
    /\ ctx.surrounding <= SurroundingCap
    /\ ctx.link <= LinkCap
    /\ ctx.destination <= DestinationCap
    /\ ctx.request <= RequestCap(ctx.kind)

\* C27: within one run every node has at most one inference request per
\* phase: a task that has reached its inference call has sent exactly one
\* request, also after the request failed, and a task that was not launched
\* or is still capturing has sent none.
C27_OneRequestPerTask ==
  \A r \in Runs, n \in Nodes :
    /\ gen[r][n].sent <= 1 /\ ana[r][n].sent <= 1
    /\ (gen[r][n].st \in {"fetch", "fail"}) => gen[r][n].sent = 1
    /\ (ana[r][n].st \in {"fetch", "ok", "fail"}) => ana[r][n].sent = 1
    /\ (gen[r][n].st \in {"none", "capture"}) => gen[r][n].sent = 0
    /\ (ana[r][n].st \in {"none", "capture"}) => ana[r][n].sent = 0

\* the request of a generation task failed and the run has gone on to its
\* end without the request being sent again
C27_Witness ==
  \E r \in Runs, n \in Nodes :
    /\ gen[r][n].st = "fail" /\ gen[r][n].sent = 1
    /\ phase[r][doc[n].cat] \in {"done", "aborted"}
    /\ ana[r][n].st \in {"ok", "fail"} => ana[r][n].sent = 1

\* C28: the step that triggers a run launches one generation task for every
\* node that is classified NeedsGeneration in the document at that moment,
\* and for no other node; all of them are launched in that same step, none
\* waiting for another, so that every launched task that has work to await
\* (all but the images below the size threshold, which complete at once) is
\* in flight together with the others.
C28_FanOutLaunchesAll ==
  [][ numRuns' = numRuns + 1 =>
        \A n \in Nodes :
          /\ (gen'[numRuns'][n].st # "none")
               <=> (doc[n].present /\ NeedsGeneration(doc[n]))
          /\ (doc[n].present /\ NeedsGeneration(doc[n])
                /\ ~(doc[n].cat = "Image" /\ IsSmallImage(doc[n])))
               => InFlight(gen'[numRuns'][n]) ]_vars

\* two eligible nodes of one document have their tasks of the same run in
\* flight at the same time: as many tasks in flight as eligible nodes
C28_Witness ==
  \E r \in Runs :
    /\ Cardinality(Nodes) = 2
    /\ \A n \in Nodes : NeedsGeneration(doc0[n]) /\ InFlight(gen[r][n])

\* C29: in the isolated raster capture, when the load of the image with CORS
\* enabled has failed and the capture has resolved with the placeholder, a
\* second load of the image without CORS has been tried.
C29_RetryBeforePlaceholder ==
  ( /\ cap.fn = "captureImageOnly"
    /\ cap.img = "failed"
    /\ cap.result.st = "resolved" /\ cap.result.kind = "placeholder" )
  => cap.img2 # "none"

\* C30: when the storage callback of the content script runs and the stored
\* flag is false, the callback triggers no run and changes nothing of the
\* pipeline or the document; as long as the flag is false and no run has been
\* triggered, the only step that changes anything is the arrival of an
\* enabling toggle message, which triggers the first run. When the flag is
\* absent or true, the callback triggers exactly one run, of every category.
C30_LoadHonoursStoredFlag ==
  [][ /\ (~loaded /\ loaded') =>
           IF stored = "false"
             THEN /\ ~isEnabled'
                  /\ numRuns' = numRuns /\ doc' = doc
                  /\ phase' = phase /\ gen' = gen /\ ana' = ana
                  /\ timers' = timers
             ELSE /\ isEnabled'
                  /\ numRuns' = numRuns + 1
                  /\ \A c \in Categories : phase'[numRuns'][c] # "idle"
                  /\ \A r \in Runs \ {numRuns'}, c \in Categories :
                       phase'[r][c] = phase[r][c]
      /\ (stored = "false" /\ numRuns = 0) =>
           \/ isEnabled' /\ numRuns' = 1
           \/ /\ doc' = doc /\ doc' = doc0 /\ numRuns' = 0 /\ phase' = phase
              /\ timers' = timers /\ gen' = gen /\ ana' = ana ]_vars

\* the script has loaded with the stored flag false, on a page that has a
\* node to remediate, and has not been enabled: nothing has run
C30_Witness ==
  /\ loaded /\ stored = "false" /\ ~isEnabled
  /\ numRuns = 0
  /\ \E n \in Nodes : NeedsGeneration(doc[n])

\* C31: while the pipeline is disabled no analysis task is launched, no
\* analysis marker is put on a node and no analysis tooltip is shown: a run
\* that was generating or settling when the pipeline was toggled off never
\* starts its analysis fan-out while the pipeline stays off.
C31_NoAnalysisWhileDisabled ==
  [][ ~isEnabled =>
        \A r \in Runs, n \in Nodes :
          /\ ana[r][n].st = "none" => ana'[r][n].st = "none"
          /\ doc'[n].classes \cap {AnalysisClass(c) : c \in Categories}
               \subseteq doc[n].classes
          /\ ana[r][n].tip # "shown" => ana'[r][n].tip # "shown" ]_vars

\* C32: whatever runs have taken place, the data-original-text of a
\* remediated link holds the text the link had before its first remediation,
\* that is the text the author gave it.
C32_OriginalTextIsAuthors ==
  \A n \in Nodes :
    (doc[n].cat = "Link" /\ doc[n].present /\ doc[n].dataAiGenerated = S_true)
      => doc[n].dataOriginalText = LinkTextOf(doc0[n])

\* C33: when the inference call of a node's generation task fails, the
\* content of the node (alt, aria-label, title, id, text, label) is after the
\* task what it was before, whatever the category of the node.
C33_FailureLeavesContent ==
  (verdict.done /\ response.kind # "payload"
     /\ ~(probe.cat = "Image" /\ IsSmallImage(probe)))
    => Content(applied) = Content(probe)

\* C34: toggling off removes no element of the page's author from the
\* document: every node that is in the document before the toggle is in it
\* afterwards, and so is every label element the author wrote.
C34_TeardownKeepsAuthorElements ==
  [][ Toggle(FALSE) =>
        \A n \in Nodes :
          /\ doc[n].present => doc'[n].present
          /\ (doc0[n].labelExists /\ doc[n].labelExists) => doc'[n].labelExists ]_vars

\* every task of every run has settled and no run is still to analyse
RunsCompleted ==
  /\ numRuns >= 1
  /\ \A r \in Runs, n \in Nodes : ~InFlight(gen[r][n]) /\ ~InFlight(ana[r][n])
  /\ \A r \in 1..numRuns, c \in Categories : phase[r][c] \in {"done", "aborted"}

\* C35: enable followed by disable is a round trip on the attributes of the
\* nodes: when the runs have completed and the pipeline is toggled off, the
\* alt of every image, the aria-label and the id of every field and the
\* aria-label and the title of every link are those the author wrote.
C35_ToggleOffRestoresAttributes ==
  [][ (RunsCompleted /\ Toggle(FALSE)) =>
        \A n \in Nodes :
          doc'[n].present =>
            /\ doc'[n].alt = doc0[n].alt
            /\ doc'[n].ariaLabel = doc0[n].ariaLabel
            /\ doc'[n].id = doc0[n].id
            /\ doc'[n].title = doc0[n].title ]_vars


\* the generated id a form field was given when a label was inserted for it:
\* the trace addGeneratedLabel leaves on a field that had no id
LabelWasGenerated(n) ==
  doc0[n].id = EMPTY /\ doc[n].id = GeneratedId(doc0[n])

\* C36: the pipeline is re-entrant across a disable/enable cycle.  For a form
\* field that had no accessible name and for which the first run inserted a
\* label, the run started by enabling again after a disable either finds the
\* generated label still on the field or launches a generation task for the
\* field, and that task, resolving with a result that carries a label as the
\* first one did, leaves the field with a visible generated label.
C36_ReenableRegeneratesLabel ==
  [][ \A n \in Nodes :
        (doc[n].cat = "FormField" /\ doc[n].present /\ needsLabel(doc0[n])
           /\ LabelWasGenerated(n)) =>
          /\ (~isEnabled /\ RunsCompleted /\ Toggle(TRUE))
               => (HasInsertedLabel(doc'[n]) \/ gen'[numRuns'][n].st = "fetch")
          /\ \A resp \in FormGenPayloads :
               (numRuns = 2 /\ GenResolve(2, n, resp) /\ JsTruthy(resp.label))
                 => HasInsertedLabel(doc'[n]) ]_vars


\* the generation task of the probe treated the image as decorative: by the
\* classification of the inference result, or by the size shortcut for an
\* image with a natural dimension below the threshold
TreatedAsDecorative ==
  /\ verdict.done
  /\ probe.cat = "Image"
  /\ \/ IsSmallImage(probe)
     \/ response.kind = "payload" /\ response.classification = S_decorative

\* C37: every image that the generation phase treats as decorative, by the
\* model's classification or by the size shortcut, ends with an empty alt and
\* is not selected by the filter of the following analysis phase.
C37_DecorativeEmptyAndNotAnalysed ==
  TreatedAsDecorative => (applied.alt = EMPTY /\ ~verdict.needsAnalysis)

====
